---- MODULE Spec2Model ----
(***************************************************************************)
(* memorypilot: the background agent's event pipeline and the memory       *)
(* store's recall and decay.                                               *)
(*                                                                         *)
(* Producers (git scanner, file watcher, history tailer) submit events to  *)
(* a bounded channel with a non-blocking send.  One dispatcher goroutine   *)
(* (Agent.processEvents) selects over the shutdown context, the channel    *)
(* and a batch timer, persists every dequeued event, accumulates a batch   *)
(* and hands it to Agent.processBatch: extraction, memory creation,        *)
(* embedding, event marking.                                               *)
(*                                                                         *)
(* An event is identified by its ID (a ULID, unique and increasing in      *)
(* creation order); the IDs are 1, 2, ... here.  Go's select chooses among *)
(* its ready cases at random, so every ready case is a possible step.      *)
(* Store writes (database/sql Exec) may fail; each write draws its outcome *)
(* from BOOLEAN.  Timers follow Go >= 1.23 (go.mod: go 1.25.6): Reset      *)
(* discards a tick that was not yet received.                              *)
(*                                                                         *)
(* The store is SQLite behind mattn/go-sqlite3.  A confidence is kept in   *)
(* tenths and an importance in units of 1/10000; a product is rounded to   *)
(* the nearest unit, as IEEE arithmetic rounds to the nearest double.  A   *)
(* time.Time is bound as the text of the local wall clock, datetime('now') *)
(* is the text of the UTC clock, and SQL compares the two as texts; time   *)
(* is counted in units of half a day.  A text is a sequence of characters. *)
(*                                                                         *)
(* Spec is the agent's pipeline.  SpecStore is the store of a running      *)
(* daemon: recalls, the daily decay, time passing.  SpecRecall is one      *)
(* recall (store API, MCP tool or CLI command) on a table of memories.     *)
(***************************************************************************)
EXTENDS Integers, Sequences, FiniteSets

(* ------------------------------ bounds -------------------------------- *)

\* Events created by the producers in one run.
MaxEvents == 4

\* Capacity of the event channel (10000 in Agent.New, scaled down).
QueueCap == 2

\* Config.BatchSize (10 by default, scaled down).
BatchSize == 2

\* Memories the store may hold in one run.
MaxMem == 1

\* Memories in the table when SpecStore starts.
MaxAged == 2

\* Time units (half days) SpecStore lets pass.
MaxClock == 2

\* Operations of the store's clients in one run.
MaxRecalls == 2

\* Memories in the tables of SpecRecall.
MaxRows == 6

\* Operations on the project registry in one run.
MaxProjectOps == 3

\* Events the producers submit while the agent is stopped.
StopEvents == 1

\* Events the producers submit before and after the daemon is killed.
RestartEvents == 2

\* Runs of Store.DecayImportance while clients recall.
MaxDecays == 1

\* Events the producers submit while the workers are observed.
WorkerEvents == 2

\* Days the workers are observed for.
MaxUptime == 2

\* Lines the assistant writes to the server.
MaxLines == 2

\* Lines the shell writes to its history file.
MaxHistory == 3

\* Calls of checkRepo, and commit hashes a repository's head may have.
MaxScans == 5
MaxHashes == 2

\* Ticks of the file watcher's clock, and change notifications it is sent.
MaxFsClock == 4
MaxNotifs == 4

(* ----------------------------- constants ------------------------------ *)

\* The three watchers Agent.startWatchers starts.
Producers == {"git", "file", "terminal"}

\* The memories table's CHECK constraint on type.
MemoryTypes == {"decision", "pattern", "fact", "preference", "mistake", "learning"}

\* Types an extractor may return: one inside the enum, one outside it.
CandTypes == {"fact", "note"}

\* Confidences an extractor may return, in tenths: the JSON number of the
\* model's answer is taken as it is.
CandConfs == {5, 9, 12}

\* A new memory's importance, 1.0, in units of 1/10000.
ImportanceInit == 10000

\* The confidence 1.0 of a manual memory, in tenths.
ConfidenceOne == 10

\* `m.Confidence >= 0.6` of OllamaExtractor.Extract, in tenths.
ConfidenceMin == 6

\* MIN(1.0, ...) of recordAccess, in units of 1/10000.
ImportanceMax == 10000

\* importance * 1.05 of recordAccess, in hundredths.
BoostPct == 105

\* importance * 0.99 of DecayImportance, in hundredths.
DecayPct == 99

\* importance > 0.1 of DecayImportance, in units of 1/10000.
DecayFloor == 1000

\* '-1 day' of DecayImportance and the 24 hours of decayLoop's ticker, in
\* time units.
Day == 2

\* `limit = 5` of Store.Recall and handleRecall, the CLI flag's default.
DefaultLimit == 5

\* Offsets of the local zone from UTC, in time units.
TzOffsets == {-1, 0, 1}

\* A nil *string project_id (SQL NULL).
NoProject == "none"

\* What Embedder.Embed may answer: an error, a nil vector, a vector.
EmbedOutcomes == {"err", "nil", "vec"}

\* The extractor's answers: type, content, summary, confidence (no topics).
Candidates ==
    [type : CandTypes, confidence : CandConfs, content : {<<"a", "b">>},
     summary : {<<"a">>}]

\* Candidate lists of length 0 .. n.
RECURSIVE CandLists(_)
CandLists(n) ==
    IF n <= 0 THEN {<<>>}
    ELSE LET shorter == CandLists(n - 1)
         IN shorter \cup {Append(l, c) : l \in {s \in shorter : Len(s) = n - 1}, c \in Candidates}

(* ------------------------------- state -------------------------------- *)

VARIABLES
    eventQueue,   \* Agent.eventQueue: the buffered channel's contents, oldest first
    nextId,       \* the ID the next created event gets
    dropped,      \* IDs logged as "Event queue full, dropping ..."
    ctxDone,      \* Agent.ctx is cancelled
    pc,           \* where the dispatcher goroutine is
    batch,        \* processEvents' batch slice (processBatch's events while it runs)
    trigger,      \* which select case called the running processBatch
    timer,        \* processEvents' timer: "armed", "expired" (a tick can be received), "idle"
    cands,        \* processBatch: extracted candidates not yet handled
    markIdx,      \* processBatch: index of the next event to mark
    events,       \* events table: IDs of the rows, in insertion order
    processed,    \* events table: IDs whose processed_at is set
    memories,     \* memories table: the rows, in insertion order
    dequeued,     \* IDs the dispatcher received from the channel, in order
    createFailed, \* IDs logged as "Failed to store event"
    markFailed,   \* IDs whose MarkEventProcessed returned an error
    flushLog,     \* the batches handed to processBatch so far, in call order
    completed,    \* the processBatch calls that have returned
    extractFailed, \* the latest extractor.Extract returned an error ("Extraction failed")
    embedLog,     \* the calls of embedder.Embed so far: the memory's id and the answer
    now,          \* the clock: time units since the daemon started
    tz,           \* the local zone's offset from UTC, in time units
    nextDecay,    \* decayLoop: when its ticker fires next
    calls,        \* operations the clients of the store made so far
    via,          \* the latest store operation, "none" before the first
    lastReq,      \* the latest recall's arguments, as its caller gave them
    recalled,     \* the memories the latest recall returned, in order
    reply,        \* what the latest operation answered its caller: "ok", "error", ...
    shown,        \* the total the latest status reported (-1: none yet)
    projects,     \* projects table: the rows
    found,        \* the latest GetProjectByPath: its path and the rows it returned
    upserted,     \* per path, the project of the latest CreateProject that succeeded
    asked,        \* the memory the latest remember or CreateMemory was asked to keep
    stopped,      \* Agent.Stop: the watchers whose Stop() has returned, in call order
    exited,       \* the watchers whose goroutines have returned
    decayUp,      \* decayLoop has not returned
    storePc,      \* Agent.Stop after the Stop() calls: "open", "waited" (wg.Wait
                  \* returned), "closed" (store.Close returned)
    restarted,    \* the daemon was killed and started again
    orphans,      \* the events that were stored and not marked when it was killed
    cursors,      \* per client in Store.Recall's rows.Next loop: the rows its SELECT
                  \* read that recordAccess has yet to update
    applied,      \* the statements the database has executed, in the order it did
    stats,        \* GetStats: where the call is and the Stats it has filled in
    server,       \* mcp.Server: the lines its reader has yet to return, whether the
                  \* input has ended, what it wrote to its writer, where Run is
    pending,      \* FileWatcher.pending: per path, the time of its latest
                  \* notification (NotPending: the path is not in the map)
    fsClock,      \* the clock the file watcher reads, in ticks of its debounce ticker
    fileLog,      \* the calls of FileWatcher.emitEvent: path, time, what became of it
    terminalWatcher, \* TerminalWatcher: lastPositions of the history file, and
                  \* checkHistory's currentSize while it runs
    historyFile,  \* the shell's history file: its lines, each line a number
    appended,     \* the lines the shell has written to the history file so far
    examined,     \* the lines checkHistory's scanner returned, in order
    lastCommit,   \* GitWatcher.lastCommit: per repository, the hash it recorded
    repoHead,     \* per repository, the hash of its head commit
    gitLog        \* the scans of checkRepo that reached the select: repository, hash,
                  \* what became of the event

vars == <<eventQueue, nextId, dropped, ctxDone, pc, batch, trigger, timer, cands,
          markIdx, events, processed, memories, dequeued, createFailed, markFailed,
          flushLog, completed, extractFailed, embedLog,
          now, tz, nextDecay, calls, via, lastReq, recalled,
          reply, shown, projects, found, upserted, asked,
          stopped, exited, decayUp, storePc, restarted, orphans,
          cursors, applied, stats, server, pending, fsClock, fileLog,
          terminalWatcher, historyFile, appended, examined,
          lastCommit, repoHead, gitLog>>

\* The assistant-facing server, the three watchers and what they watch.
fwVars == <<pending, fsClock, fileLog>>
twVars == <<terminalWatcher, historyFile, appended, examined>>
gwVars == <<lastCommit, repoHead, gitLog>>
edgeVars == <<stats, server, fwVars, twVars, gwVars>>

producerVars == <<eventQueue, nextId, dropped>>
storeVars == <<events, processed, memories>>
logVars == <<dequeued, createFailed, markFailed, flushLog, completed, extractFailed,
            embedLog>>
lifeVars == <<stopped, exited, decayUp, storePc, restarted, orphans,
          cursors, applied, edgeVars>>
registryVars == <<projects, found, upserted>>
ifaceVars == <<reply, shown, projects, found, upserted, asked>>
clientVars == <<now, tz, nextDecay, calls, via, lastReq, recalled,
                reply, shown, projects, found, upserted, asked,
                stopped, exited, decayUp, storePc, restarted, orphans,
          cursors, applied, edgeVars>>
agentVars == <<eventQueue, nextId, dropped, ctxDone, pc, batch, trigger, timer, cands,
               markIdx, events, processed, dequeued, createFailed, markFailed,
               flushLog, completed, extractFailed, embedLog>>

\* Elements of a sequence.
Range(s) == {s[i] : i \in 1..Len(s)}

(* ------------------------- values of the store ------------------------ *)

\* go-sqlite3 binds a time.Time as the text of its wall clock in the local
\* zone ("2006-01-02 15:04:05.999999999-07:00"); texts of one zone compare as
\* their wall clocks do.
LocalTime(t) == t + tz

\* SQLite's datetime('now', '-1 day'): the text of the UTC clock a day ago.
DayAgoUTC(t) == t - Day

\* json.Marshal of a nil slice.
JSONNull == <<"n", "u", "l", "l">>

\* json.Marshal's elements of a list of strings: "t1","t2".
RECURSIVE JSONElements(_)
JSONElements(topics) ==
    IF topics = <<>> THEN <<>>
    ELSE <<"\"">> \o Head(topics) \o <<"\"">> \o
         (IF Tail(topics) = <<>> THEN <<>> ELSE <<",">> \o JSONElements(Tail(topics)))

\* json.Marshal(m.Topics) of a non-nil slice: the topics column.
TopicsJSON(topics) == <<"[">> \o JSONElements(topics) \o <<"]">>

(* ------------------------------ New ----------------------------------- *)

\* The arguments of a recall: the query text, the scope and type filters
\* (empty: no filter), the project filter and the limit.
RecallArgs(query, scope, types, project, limit) ==
    [query |-> query, scope |-> scope, types |-> types, project |-> project,
     limit |-> limit]

\* No recall was made yet.
NoRequest == RecallArgs(<<>>, {}, {}, NoProject, 0)

\* Agent.New: nothing queued, batched or stored, the timer armed.
AgentIdle ==
    /\ eventQueue = <<>>
    /\ nextId = 1
    /\ dropped = {}
    /\ ctxDone = FALSE
    /\ pc = "select"
    /\ batch = <<>>
    /\ trigger = "none"
    /\ timer = "armed"
    /\ cands = <<>>
    /\ markIdx = 1
    /\ events = <<>>
    /\ processed = {}
    /\ dequeued = <<>>
    /\ createFailed = {}
    /\ markFailed = {}
    /\ flushLog = <<>>
    /\ completed = 0
    /\ extractFailed = FALSE
    /\ embedLog = <<>>

\* No memory was asked for yet.
NoMemory ==
    [id |-> 0, type |-> "", scope |-> "", project |-> NoProject, source |-> "",
     content |-> <<>>, summary |-> <<>>, topics |-> JSONNull, confidence |-> 0,
     importance |-> 0, lastAccessed |-> 0, accessCount |-> 0, embedding |-> FALSE]

\* The clients that may be inside Store.Recall at the same time.
RecallClients == {"c1", "c2"}

\* Filesystem paths and ids of the projects the callers register.
ProjectPaths == {"/a", "/b"}
ProjectIds == {"p1", "p2"}
ProjectNames == {"n", "m"}

\* The types GROUP BY type may report: those the type column may hold.
StatTypes == MemoryTypes

\* No GetStats is running; the Stats of the latest one (none yet).
StatsIdle ==
    [pc |-> "idle", TotalMemories |-> 0, ByType |-> [t \in StatTypes |-> 0]]

\* The paths under the watched directories, the repositories under the
\* scanned ones.
WatchedPaths == {"f", "g"}
Repos == {"r", "s"}

\* The path has no entry in FileWatcher.pending.
NotPending == -1

\* The repository has no entry in GitWatcher.lastCommit; it has no commit.
NoCommit == 0

\* NewServer, NewFileWatcher, NewTerminalWatcher, NewGitWatcher: nothing was
\* read, written, notified or scanned; the history file is empty and the
\* repositories have no commit.
EdgeIdle ==
    /\ stats = StatsIdle
    /\ server = [reader |-> <<>>, eof |-> "open", writer |-> <<>>, pc |-> "new",
                 written |-> 0, served |-> 0]
    /\ pending = [p \in WatchedPaths |-> NotPending]
    /\ fsClock = 0
    /\ fileLog = <<>>
    /\ terminalWatcher = [pc |-> "new", lastPositions |-> 0, currentSize |-> 0,
                          startedAt |-> 0]
    /\ historyFile = <<>>
    /\ appended = 0
    /\ examined = <<>>
    /\ lastCommit = [r \in Repos |-> NoCommit]
    /\ repoHead = [r \in Repos |-> NoCommit]
    /\ gitLog = <<>>

\* What a step of a watcher or of the status reader leaves alone in the
\* daemon and in the store.
EdgeFrame ==
    /\ UNCHANGED <<ctxDone, pc, batch, trigger, timer, cands, markIdx>>
    /\ UNCHANGED storeVars
    /\ UNCHANGED logVars
    /\ UNCHANGED <<now, tz, nextDecay, calls, via, lastReq, recalled>>
    /\ UNCHANGED ifaceVars
    /\ UNCHANGED <<stopped, exited, decayUp, storePc, restarted, orphans, cursors, applied>>

\* No operation has answered yet; no project is registered.
SurfaceIdle ==
    /\ reply = "none"
    /\ shown = -1
    /\ projects = {}
    /\ found = [path |-> "", rows |-> <<>>]
    /\ upserted = [path \in ProjectPaths |-> <<>>]
    /\ asked = NoMemory
    /\ stopped = <<>>
    /\ exited = {}
    /\ decayUp = TRUE
    /\ storePc = "open"
    /\ restarted = FALSE
    /\ orphans = {}
    /\ cursors = [c \in RecallClients |-> <<>>]
    /\ applied = <<>>
    /\ EdgeIdle

\* No store operation was made yet; the decay ticker fires after a day.
ClientIdle ==
    /\ now = 0
    /\ nextDecay = Day
    /\ calls = 0
    /\ via = "none"
    /\ lastReq = NoRequest
    /\ recalled = <<>>
    /\ SurfaceIdle

Init ==
    /\ AgentIdle
    /\ ClientIdle
    /\ tz = 0
    /\ memories = <<>>

(* ---------------------------- producers ------------------------------- *)

\* Mutant: the channel takes one event more than its capacity.
QueueHasRoomOffByOne(q) == Len(q) <= QueueCap

\* `case w.eventSink <- event:` can proceed: the channel has a free slot.
QueueHasRoom(q) == Len(q) < QueueCap

\* Mutant: a plain send `w.eventSink <- event`, which waits for a free slot.
SubmitBlocking(p) ==
    /\ nextId <= MaxEvents
    /\ QueueHasRoom(eventQueue)
    /\ nextId' = nextId + 1
    /\ eventQueue' = Append(eventQueue, nextId)
    /\ UNCHANGED <<dropped, ctxDone, pc, batch, trigger, timer, cands, markIdx>>
    /\ UNCHANGED storeVars
    /\ UNCHANGED logVars
    /\ UNCHANGED clientVars

\* emitEvent / checkRepo: create the event, then select { send; default: log }.
Submit(p) ==
    /\ nextId <= MaxEvents
    /\ nextId' = nextId + 1
    /\ IF QueueHasRoom(eventQueue)
       THEN /\ eventQueue' = Append(eventQueue, nextId)
            /\ dropped' = dropped
       ELSE /\ eventQueue' = eventQueue
            /\ dropped' = dropped \cup {nextId}
    /\ UNCHANGED <<ctxDone, pc, batch, trigger, timer, cands, markIdx>>
    /\ UNCHANGED storeVars
    /\ UNCHANGED logVars
    /\ UNCHANGED clientVars

ProducerSubmit == \E p \in Producers : Submit(p)

(* ------------------------- shutdown and timer ------------------------- *)

\* Agent.Stop: a.cancel().
Cancel ==
    /\ ~ctxDone
    /\ ctxDone' = TRUE
    /\ UNCHANGED <<pc, batch, trigger, timer, cands, markIdx>>
    /\ UNCHANGED producerVars
    /\ UNCHANGED storeVars
    /\ UNCHANGED logVars
    /\ UNCHANGED clientVars

\* The runtime: BatchWait has elapsed since the timer was armed.
TimerExpire ==
    /\ timer = "armed"
    /\ timer' = "expired"
    /\ UNCHANGED <<ctxDone, pc, batch, trigger, cands, markIdx>>
    /\ UNCHANGED producerVars
    /\ UNCHANGED storeVars
    /\ UNCHANGED logVars
    /\ UNCHANGED clientVars

(* ------------------------ Agent.processEvents ------------------------- *)

\* Mutant: the guard lets an empty batch through.
BatchNonEmptyOrEmpty(b) == Len(b) >= 0

\* `if len(batch) > 0` of the shutdown and timer cases.
BatchNonEmpty(b) == Len(b) > 0

\* Mutant: the batch is flushed one event late.
SizeTriggeredLate(b) == Len(b) > BatchSize

\* `if len(batch) >= a.config.BatchSize` of the queue case.
SizeTriggered(b) == Len(b) >= BatchSize

\* The call a.processBatch(b) from the select case `trig`: the dispatcher
\* enters extractor.Extract and stays there until the gateway answers.
CallProcessBatch(b, trig) ==
    /\ batch' = b
    /\ trigger' = trig
    /\ pc' = "extract"
    /\ flushLog' = Append(flushLog, b)

\* case <-a.ctx.Done(): flush what has accumulated, then return.
ShutdownCase ==
    /\ pc = "select"
    /\ ctxDone
    /\ IF BatchNonEmpty(batch)
       THEN CallProcessBatch(batch, "shutdown")
       ELSE /\ pc' = "done"
            /\ UNCHANGED <<batch, trigger, flushLog>>
    /\ UNCHANGED <<ctxDone, timer, cands, markIdx>>
    /\ UNCHANGED producerVars
    /\ UNCHANGED storeVars
    /\ UNCHANGED <<dequeued, createFailed, markFailed, completed, extractFailed, embedLog>>
    /\ UNCHANGED clientVars

\* Mutant: the `continue` is missing, an event that was not stored is batched.
SkipsEventNever(stored) == FALSE

\* `if err := a.store.CreateEvent(&event); err != nil { ...; continue }`.
SkipsEvent(stored) == ~stored

\* case event := <-a.eventQueue: Store.CreateEvent, append, flush on size.
QueueCase ==
    /\ pc = "select"
    /\ eventQueue # <<>>
    /\ LET event == Head(eventQueue) IN
       /\ eventQueue' = Tail(eventQueue)
       /\ dequeued' = Append(dequeued, event)
       /\ \E stored \in BOOLEAN :
            /\ events' = IF stored THEN Append(events, event) ELSE events
            /\ createFailed' = IF stored THEN createFailed ELSE createFailed \cup {event}
            /\ IF SkipsEvent(stored)
               THEN UNCHANGED <<pc, batch, trigger, flushLog>>
               ELSE IF SizeTriggered(Append(batch, event))
                    THEN CallProcessBatch(Append(batch, event), "size")
                    ELSE /\ batch' = Append(batch, event)
                         /\ UNCHANGED <<pc, trigger, flushLog>>
    /\ UNCHANGED <<nextId, dropped, ctxDone, timer, cands, markIdx>>
    /\ UNCHANGED <<processed, memories, markFailed, completed, extractFailed, embedLog>>
    /\ UNCHANGED clientVars

\* Mutant: the timer is reset only after a flush, not when the batch was
\* found empty.
TimerCaseNoReset ==
    /\ pc = "select"
    /\ timer = "expired"
    /\ IF BatchNonEmpty(batch)
       THEN /\ CallProcessBatch(batch, "time")
            /\ timer' = "idle"
       ELSE /\ timer' = "idle"
            /\ UNCHANGED <<pc, batch, trigger, flushLog>>
    /\ UNCHANGED <<ctxDone, cands, markIdx>>
    /\ UNCHANGED producerVars
    /\ UNCHANGED storeVars
    /\ UNCHANGED <<dequeued, createFailed, markFailed, completed, extractFailed, embedLog>>
    /\ UNCHANGED clientVars

\* case <-timer.C: flush a non-empty batch; re-arm the timer.
TimerCase ==
    /\ pc = "select"
    /\ timer = "expired"
    /\ IF BatchNonEmpty(batch)
       THEN /\ CallProcessBatch(batch, "time")
            /\ timer' = "idle"
       ELSE /\ timer' = "armed"
            /\ UNCHANGED <<pc, batch, trigger, flushLog>>
    /\ UNCHANGED <<ctxDone, cands, markIdx>>
    /\ UNCHANGED producerVars
    /\ UNCHANGED storeVars
    /\ UNCHANGED <<dequeued, createFailed, markFailed, completed, extractFailed, embedLog>>
    /\ UNCHANGED clientVars

(* ------------------------ Agent.processBatch -------------------------- *)

\* What a.extractor.Extract may answer, a.extractor being any implementation
\* of the Extractor interface: an error, or a list of candidates.
ExtractOutcomes(room) ==
    {[err |-> TRUE, list |-> <<>>]} \cup {[err |-> FALSE, list |-> l] : l \in CandLists(room)}

\* extractor.Extract returns.  On an error the events are still marked.
ExtractReturn ==
    /\ pc = "extract"
    /\ \E out \in ExtractOutcomes(MaxMem - Len(memories)) :
         /\ cands' = out.list
         /\ pc' = IF out.err THEN "markErr"
                  ELSE IF out.list = <<>> THEN "mark" ELSE "save"
         /\ extractFailed' = out.err
    /\ markIdx' = 1
    /\ UNCHANGED <<ctxDone, batch, trigger, timer>>
    /\ UNCHANGED producerVars
    /\ UNCHANGED storeVars
    /\ UNCHANGED <<dequeued, createFailed, markFailed, flushLog, completed, embedLog>>
    /\ UNCHANGED clientVars

\* Store.CreateMemory succeeds: the write went through and the row passes
\* the table's CHECK constraint on type (the scope is always personal).
CreateMemoryOk(c, written) == written /\ c.type \in MemoryTypes

\* The models.Memory processBatch builds from a candidate.
NewMemory(c, id, hasEmbedding) ==
    [id |-> id, type |-> c.type, scope |-> "personal", project |-> NoProject,
     source |-> "git", content |-> c.content, summary |-> c.summary,
     topics |-> JSONNull, confidence |-> c.confidence,
     importance |-> ImportanceInit, lastAccessed |-> LocalTime(now),
     accessCount |-> 0, embedding |-> hasEmbedding]

\* Mutant: UpdateMemoryEmbedding is called whatever Embed answered.
EmbeddingStoredUnchecked(emb, updated) == updated

\* `if err != nil { log } else if emb != nil { UpdateMemoryEmbedding }`: the
\* row gets an embedding when Embed answered a vector and the update of the
\* row went through (its error is logged).
EmbeddingStored(emb, updated) == emb = "vec" /\ updated

\* One round of `for _, ext := range extracted`: CreateMemory (continue on
\* failure), Embed, UpdateMemoryEmbedding.  The calls of Embed are written
\* to embedLog when `logged` is set.
SaveRound(logged) ==
    /\ pc = "save"
    /\ LET c == Head(cands) IN
       \E written \in BOOLEAN :
         IF CreateMemoryOk(c, written)
         THEN \E emb \in EmbedOutcomes, updated \in BOOLEAN :
                /\ memories' = Append(memories,
                                 NewMemory(c, Len(memories) + 1,
                                           EmbeddingStored(emb, updated)))
                /\ embedLog' = IF logged
                               THEN Append(embedLog, [id |-> Len(memories) + 1, out |-> emb])
                               ELSE embedLog
         ELSE /\ memories' = memories
              /\ embedLog' = embedLog
    /\ cands' = Tail(cands)
    /\ pc' = IF Tail(cands) = <<>> THEN "mark" ELSE "save"
    /\ UNCHANGED <<ctxDone, batch, trigger, timer, markIdx>>
    /\ UNCHANGED producerVars
    /\ UNCHANGED <<events, processed>>
    /\ UNCHANGED <<dequeued, createFailed, markFailed, flushLog, completed, extractFailed>>
    /\ UNCHANGED clientVars

\* The round of the save loop, the calls of Embed not recorded.
SaveCandidate == SaveRound(FALSE)

\* The round of the save loop, the calls of Embed recorded.
SaveCandidateLogged == SaveRound(TRUE)

\* Mutant: the marking loop stops after its first round.
MarkLoopDoneEarly(i, b) == i >= 1

\* The marking loop has gone through every event of the batch.
MarkLoopDone(i, b) == i >= Len(b)

\* Mutant: the batch is not emptied after a flush.
BatchAfterFlushKept(b) == b

\* `batch = batch[:0]` after processBatch returns to the queue or timer case.
BatchAfterFlush(b) == SubSeq(b, 1, 0)

\* One round of a `for _, e := range events` marking loop, and, after the
\* last round, the return to the calling select case: the shutdown case
\* returns from processEvents, the others empty the batch and reset the timer.
MarkStep ==
    /\ LET e == batch[markIdx] IN
       \E marked \in BOOLEAN :
         IF marked
         THEN /\ processed' = processed \cup {e}
              /\ markFailed' = markFailed
         ELSE /\ processed' = processed
              /\ markFailed' = markFailed \cup {e}
    /\ IF MarkLoopDone(markIdx, batch)
       THEN /\ completed' = completed + 1
            /\ markIdx' = 1
            /\ IF trigger = "shutdown"
               THEN /\ pc' = "done"
                    /\ UNCHANGED <<batch, timer, trigger>>
               ELSE /\ pc' = "select"
                    /\ batch' = BatchAfterFlush(batch)
                    /\ timer' = "armed"
                    /\ trigger' = "none"
       ELSE /\ markIdx' = markIdx + 1
            /\ UNCHANGED <<pc, batch, timer, trigger, completed>>
    /\ UNCHANGED <<ctxDone, cands>>
    /\ UNCHANGED producerVars
    /\ UNCHANGED <<events, memories>>
    /\ UNCHANGED <<dequeued, createFailed, flushLog, extractFailed, embedLog>>
    /\ UNCHANGED clientVars

\* The loop after a failed extraction (the error of the write is dropped).
MarkAfterError ==
    /\ pc = "markErr"
    /\ MarkStep

\* The loop after the candidates were handled (the error is logged).
MarkProcessed ==
    /\ pc = "mark"
    /\ MarkStep

(* --------------------------- specification ---------------------------- *)

Next ==
    \/ ProducerSubmit
    \/ Cancel
    \/ TimerExpire
    \/ ShutdownCase
    \/ QueueCase
    \/ TimerCase
    \/ ExtractReturn
    \/ SaveCandidate
    \/ MarkAfterError
    \/ MarkProcessed

Spec == Init /\ [][Next]_vars

(* ------------------------------ Store.Recall -------------------------- *)

\* SQLite's LIKE folds the case of the ASCII letters only.
AsciiLower == [A |-> "a", B |-> "b", T |-> "t", X |-> "x"]

FoldCase(c) == IF c \in DOMAIN AsciiLower THEN AsciiLower[c] ELSE c

\* SQLite's LIKE: % stands for any text, _ for any one character, every
\* other character for itself, an ASCII letter in either case.
RECURSIVE Like(_, _)
Like(pattern, text) ==
    IF pattern = <<>> THEN text = <<>>
    ELSE IF Head(pattern) = "%"
         THEN Like(Tail(pattern), text) \/ (text # <<>> /\ Like(pattern, Tail(text)))
    ELSE IF text = <<>> THEN FALSE
    ELSE IF Head(pattern) = "_" THEN Like(Tail(pattern), Tail(text))
    ELSE FoldCase(Head(pattern)) = FoldCase(Head(text)) /\ Like(Tail(pattern), Tail(text))

\* searchTerm := "%" + req.Query + "%".
SearchTerm(query) == <<"%">> \o query \o <<"%">>

\* Mutant: the scope filter is never added to the statement.
ScopeFilterDropped(m, req) == TRUE

\* `AND scope IN (...)`, added when req.Scope is not empty.
ScopeFilter(m, req) == req.scope # {} => m.scope \in req.scope

\* `AND type IN (...)`, added when req.Types is not empty.
TypeFilter(m, req) == req.types # {} => m.type \in req.types

\* `AND (project_id = ? OR project_id IS NULL)`, added when req.ProjectID is set.
ProjectFilter(m, req) ==
    req.project # NoProject => (m.project = req.project \/ m.project = NoProject)

\* `AND (content LIKE ? OR summary LIKE ? OR topics LIKE ?)`, added when
\* req.Query is not empty.
QueryFilter(m, req) ==
    req.query # <<>> =>
      \/ Like(SearchTerm(req.query), m.content)
      \/ Like(SearchTerm(req.query), m.summary)
      \/ Like(SearchTerm(req.query), m.topics)

\* The WHERE clause Store.Recall builds for a request.
Matches(m, req) ==
    /\ ScopeFilter(m, req)
    /\ TypeFilter(m, req)
    /\ ProjectFilter(m, req)
    /\ QueryFilter(m, req)

\* Mutant: only a limit of 0 is replaced, a negative one reaches LIMIT (and
\* SQLite takes a negative LIMIT as no limit).
EffectiveLimitZeroOnly(limit) == IF limit = 0 THEN DefaultLimit ELSE limit

\* `if limit <= 0 { limit = 5 }`.
EffectiveLimit(limit) == IF limit <= 0 THEN DefaultLimit ELSE limit

\* ORDER BY importance DESC, last_accessed_at DESC: row a comes before row b.
SortsBefore(a, b) ==
    \/ a.importance > b.importance
    \/ a.importance = b.importance /\ a.lastAccessed > b.lastAccessed

\* ORDER BY ... LIMIT n over the rows `ids`: the first n of them in that
\* order, rows the order does not separate coming in any order (a negative n
\* is no limit).
RECURSIVE Ranked(_, _)
Ranked(ids, n) ==
    IF n = 0 \/ ids = {} THEN {<<>>}
    ELSE LET first == {i \in ids : \A j \in ids : ~SortsBefore(memories[j], memories[i])}
         IN UNION {{<<i>> \o rest : rest \in Ranked(ids \ {i}, n - 1)} : i \in first}

\* A product with a number of hundredths, rounded to the nearest unit.
MulPct(v, pct) == (v * pct + 50) \div 100

\* Mutant: the boost without its ceiling.
BoostUncapped(v) == MulPct(v, BoostPct)

\* importance = MIN(1.0, importance * 1.05).
Boost(v) ==
    IF MulPct(v, BoostPct) > ImportanceMax THEN ImportanceMax ELSE MulPct(v, BoostPct)

\* Mutant: the UPDATE also raises the confidence of the row.
RecordAccessConfirming(m) ==
    [m EXCEPT !.lastAccessed = LocalTime(now),
              !.accessCount = @ + 1,
              !.importance = Boost(@),
              !.confidence = ConfidenceOne + 1]

\* The UPDATE of Store.recordAccess on one row.
RecordAccess(m) ==
    [m EXCEPT !.lastAccessed = LocalTime(now),
              !.accessCount = @ + 1,
              !.importance = Boost(@)]

\* Mutant: recordAccess has no WHERE clause, every row of the table is
\* updated.
ReturnRowsTouchingAll(order, failed, given, caller) ==
    /\ recalled' = [k \in 1..Len(order) |-> memories[order[k]]]
    /\ memories' = [i \in 1..Len(memories) |->
                      IF order # <<>> /\ i \notin failed
                      THEN RecordAccess(memories[i]) ELSE memories[i]]
    /\ lastReq' = given
    /\ via' = caller
    /\ calls' = calls + 1
    /\ reply' = "ok"
    /\ UNCHANGED <<now, tz, nextDecay, shown, registryVars, asked>>
    /\ UNCHANGED agentVars
    /\ UNCHANGED lifeVars

\* The rows.Next loop of a recall that returns the rows `order`: each is
\* appended to the result as it was read, then recordAccess updates it; the
\* UPDATEs of the rows `failed` fail, and their errors are discarded.
ReturnRows(order, failed, given, caller) ==
    /\ recalled' = [k \in 1..Len(order) |-> memories[order[k]]]
    /\ memories' = [i \in 1..Len(memories) |->
                      IF i \in Range(order) \ failed
                      THEN RecordAccess(memories[i]) ELSE memories[i]]
    /\ lastReq' = given
    /\ via' = caller
    /\ calls' = calls + 1
    /\ reply' = "ok"
    /\ UNCHANGED <<now, tz, nextDecay, shown, registryVars, asked>>
    /\ UNCHANGED agentVars
    /\ UNCHANGED lifeVars

\* Store.Recall(req), called by `caller` whose own arguments were `given`.
Recall(req, given, caller) ==
    \E order \in Ranked({i \in 1..Len(memories) : Matches(memories[i], req)},
                        EffectiveLimit(req.limit)) :
      \E failed \in SUBSET Range(order) :
        ReturnRows(order, failed, given, caller)

\* A client of the store package calls Store.Recall with one of `reqs`.
StoreRecall(reqs) == \E req \in reqs : Recall(req, req, "Recall")

\* The MCP tool memorypilot_recall: handleRecall replaces a limit of 0 by 5
\* and calls Store.Recall with the query and the limit only.
HandleRecall(queries, limits) ==
    \E query \in queries, limit \in limits :
      Recall(RecallArgs(query, {}, {}, NoProject,
                        IF limit = 0 THEN DefaultLimit ELSE limit),
             RecallArgs(query, {}, {}, NoProject, limit), "handleRecall")

(* ------------------------------ recallCmd ----------------------------- *)

\* What OllamaEmbedder.Embed answers for the query: an error or a vector.
QueryEmbedOutcomes == {"err", "vec"}

\* The rows of a set of row indexes, lowest index first.
RECURSIVE InIndexOrder(_)
InIndexOrder(ids) ==
    IF ids = {} THEN <<>>
    ELSE LET low == CHOOSE i \in ids : \A j \in ids : i <= j
         IN <<low>> \o InIndexOrder(ids \ {low})

\* Store.HybridSearch(query, queryEmb, limit): it is given the query, its
\* embedding and the limit, and no filter.  Its ranking blends similarity
\* with importance and recency; the rows it may return are any of the table,
\* at most `limit` of them (their order is left out, in index order here).
HybridSearch(query, limit) ==
    {InIndexOrder(ids) : ids \in {s \in SUBSET (1..Len(memories)) :
                                    Cardinality(s) <= EffectiveLimit(limit)}}

\* The keyword search of recallCmd: Store.Recall with the query, the limit,
\* the --type flag when it is not empty and the --scope flags.
KeywordSearch(given) == Recall(given, given, "recallCmd:keyword")

\* memorypilot recall: with --semantic (the default) the query is embedded
\* and, when that succeeds, HybridSearch answers; otherwise, and when the
\* embedding fails, the keyword search does.
RecallCmd(queries, limits, typeFlags, scopeFlags) ==
    \E query \in queries, limit \in limits, typeFlag \in typeFlags,
       scopeFlag \in scopeFlags, semantic \in BOOLEAN :
      LET given == RecallArgs(query, scopeFlag,
                              IF typeFlag = "" THEN {} ELSE {typeFlag},
                              NoProject, limit)
      IN IF semantic
         THEN \E emb \in QueryEmbedOutcomes :
                IF emb = "err"
                THEN KeywordSearch(given)
                ELSE \E order \in HybridSearch(query, limit) :
                       \E failed \in SUBSET Range(order) :
                         ReturnRows(order, failed, given, "recallCmd:hybrid")
         ELSE KeywordSearch(given)

(* -------------------------- Store.DecayImportance --------------------- *)

\* Mutant: the floor `importance > 0.1` is missing from the WHERE clause.
DecayEligibleNoFloor(m) == m.lastAccessed < DayAgoUTC(now)

\* WHERE importance > 0.1 AND last_accessed_at < datetime('now', '-1 day').
DecayEligible(m) ==
    /\ m.importance > DecayFloor
    /\ m.lastAccessed < DayAgoUTC(now)

\* SET importance = importance * 0.99.
Decay(m) == [m EXCEPT !.importance = MulPct(@, DecayPct)]

\* Mutant: the run deletes the rows it should decay.
DecayRunPurging ==
    /\ now >= nextDecay
    /\ nextDecay' = nextDecay + Day
    /\ memories' = SelectSeq(memories, LAMBDA m : ~DecayEligible(m))
    /\ via' = "decay"
    /\ recalled' = <<>>
    /\ lastReq' = NoRequest
    /\ UNCHANGED <<now, tz, calls>>
    /\ UNCHANGED ifaceVars
    /\ UNCHANGED agentVars
    /\ UNCHANGED lifeVars

\* decayLoop: the ticker fires and Store.DecayImportance runs; a failed
\* UPDATE changes no row and is logged.
DecayRun ==
    /\ now >= nextDecay
    /\ nextDecay' = nextDecay + Day
    /\ \E ok \in BOOLEAN :
         IF ok
         THEN /\ memories' = [i \in 1..Len(memories) |->
                                IF DecayEligible(memories[i])
                                THEN Decay(memories[i]) ELSE memories[i]]
              /\ via' = "decay"
         ELSE /\ memories' = memories
              /\ via' = "decay:failed"
    /\ recalled' = <<>>
    /\ lastReq' = NoRequest
    /\ UNCHANGED <<now, tz, calls>>
    /\ UNCHANGED ifaceVars
    /\ UNCHANGED agentVars
    /\ UNCHANGED lifeVars

\* Half a day passes.
Tick ==
    /\ now < MaxClock
    /\ now' = now + 1
    /\ UNCHANGED <<tz, nextDecay, calls, via, lastReq, recalled, memories>>
    /\ UNCHANGED ifaceVars
    /\ UNCHANGED agentVars
    /\ UNCHANGED lifeVars

(* ------------------------------ SpecStore ----------------------------- *)

\* A memory made by `memorypilot remember` (type fact, no topics): manual,
\* personal, confidence 1.0, never recalled since; it was created (and last
\* accessed) at `at`, with importance 1.0 that decay runs brought to `imp`.
ManualRow(id, imp, at) ==
    [id |-> id, type |-> "fact", scope |-> "personal", project |-> NoProject,
     source |-> "manual", content |-> <<"a", "b">>, summary |-> <<"a", "b">>,
     topics |-> TopicsJSON(<<>>), confidence |-> ConfidenceOne,
     importance |-> imp, lastAccessed |-> LocalTime(at),
     accessCount |-> 0, embedding |-> FALSE]

\* The rows the table may hold when the daemon starts, oldest first:
\* memories created at 1.0 long ago that the daily decay runs have brought
\* to the floor (0.0993 after 230 runs, the first value at or below 0.1, and
\* 0.1003 after 229, the last one above it), and memories created half a
\* day ago or just now.
StartRows ==
    << [importance |-> 993, at |-> -(2 * Day)],
       [importance |-> 1003, at |-> -(2 * Day)],
       [importance |-> ImportanceInit, at |-> -1],
       [importance |-> ImportanceInit, at |-> 0] >>

\* The tables of 1 .. n such rows; the rows of a table are in the order of
\* their creation.
StartTables(n) ==
    {[id \in 1..k |-> ManualRow(id, StartRows[f[id]].importance, StartRows[f[id]].at)] :
       <<k, f>> \in {kf \in (1..n) \X [1..n -> 1..Len(StartRows)] :
                      \A i, j \in 1..kf[1] : i <= j => kf[2][i] <= kf[2][j]}}

\* The daemon starts on a store that holds memories already.
InitStore ==
    /\ AgentIdle
    /\ ClientIdle
    /\ tz \in TzOffsets
    /\ memories \in StartTables(MaxAged)

\* A recall through the MCP tool, without query and without limit.
StoreClientRecall ==
    /\ calls < MaxRecalls
    /\ HandleRecall({<<>>}, {0})

NextStore ==
    \/ StoreClientRecall
    \/ DecayRun
    \/ Tick

SpecStore == InitStore /\ [][NextStore]_vars

(* ------------------------------ SpecRecall ---------------------------- *)

\* Three memories a client of Store.CreateMemory wrote: A (decision,
\* personal, no project, importance 0.9), B (fact, project-scoped, project
\* p1, importance 0.95, one topic) and C (fact, team-scoped, project p2,
\* importance 0.95).
RowKinds ==
    << [type |-> "decision", scope |-> "personal", project |-> NoProject,
        importance |-> 9000, content |-> <<"a", "b">>,
        topics |-> TopicsJSON(<<>>)],
       [type |-> "fact", scope |-> "project", project |-> "p1",
        importance |-> 9500, content |-> <<"a", "x", "b">>,
        topics |-> TopicsJSON(<< <<"t">> >>)],
       [type |-> "fact", scope |-> "team", project |-> "p2",
        importance |-> 9500, content |-> <<"b", "%">>,
        topics |-> TopicsJSON(<<>>)] >>

\* Row id of a table: the kinds in turn from `shift` on, two rows created
\* (and last accessed) per time unit.
TableRow(id, shift) ==
    LET kind == RowKinds[((id + shift) % Len(RowKinds)) + 1]
    IN [id |-> id, type |-> kind.type, scope |-> kind.scope,
        project |-> kind.project, source |-> "manual", content |-> kind.content,
        summary |-> kind.content, topics |-> kind.topics,
        confidence |-> ConfidenceOne, importance |-> kind.importance,
        lastAccessed |-> LocalTime(id \div 2), accessCount |-> 0,
        embedding |-> FALSE]

\* The queries: none, one in the other case, one found in a topic list only,
\* two with a LIKE wildcard, one found nowhere.
Queries ==
    {<<>>, <<"A", "B">>, <<"t">>, <<"a", "_", "b">>, <<"%">>, <<"b", "a">>}

\* The limits a caller gives: negative, none (0), and positive ones.
Limits == {-1, 0, 2, DefaultLimit}

\* The requests of the store's clients.
Requests ==
    {RecallArgs(query, scope, types, project, limit) :
       query \in Queries, scope \in {{}, {"project"}, {"personal", "team"}},
       types \in {{}, {"fact"}}, project \in {NoProject, "p1"}, limit \in Limits}

\* One recall is made, at a time when every row was last accessed in the
\* past, on a table of 0 .. MaxRows rows.
InitRecall ==
    /\ AgentIdle
    /\ nextDecay = Day
    /\ calls = 0
    /\ via = "none"
    /\ lastReq = NoRequest
    /\ recalled = <<>>
    /\ SurfaceIdle
    /\ tz = 0
    /\ now = MaxRows
    /\ \E n \in 0..MaxRows, shift \in 0..(Len(RowKinds) - 1) :
         memories = [id \in 1..n |-> TableRow(id, shift)]

\* A recall through the store's API.
ApiRecall ==
    /\ calls = 0
    /\ StoreRecall(Requests)

\* A recall through the MCP tool.
McpRecall ==
    /\ calls = 0
    /\ HandleRecall(Queries, Limits)

\* A recall through the command line (its query is never empty).
CliRecall ==
    /\ calls = 0
    /\ RecallCmd({<<"A", "B">>, <<"t">>}, {0, 2}, {"", "fact"}, {{}, {"project"}})

NextRecall ==
    \/ ApiRecall
    \/ McpRecall
    \/ CliRecall

SpecRecall == InitRecall /\ [][NextRecall]_vars

(* ------------------------- Store.CreateMemory ------------------------- *)

\* The memories table's CHECK constraint on scope.
MemoryScopes == {"personal", "project", "team", "org"}

\* Mutant: INSERT OR REPLACE, a row with the same id is no obstacle.
InsertAcceptedAnyId(m) ==
    /\ m.type \in MemoryTypes
    /\ m.scope \in MemoryScopes

\* The INSERT of Store.CreateMemory is accepted: no row has the id (PRIMARY
\* KEY), the type and the scope pass their CHECK constraints.
InsertAccepted(m) ==
    /\ \A i \in 1..Len(memories) : memories[i].id # m.id
    /\ m.type \in MemoryTypes
    /\ m.scope \in MemoryScopes

\* The row the INSERT writes: the caller's values, but nil for the embedding
\* column.
InsertedRow(m) == [m EXCEPT !.embedding = FALSE]

\* Store.CreateMemory(m) called by `caller`; `written` is whether the write
\* went through.  An error is returned to the caller.
CreateMemory(m, written, caller) ==
    /\ IF written /\ InsertAccepted(m)
       THEN /\ memories' = Append(memories, InsertedRow(m))
            /\ reply' = "ok"
       ELSE /\ memories' = memories
            /\ reply' = "error"
    /\ asked' = m
    /\ via' = caller
    /\ calls' = calls + 1
    /\ UNCHANGED <<now, tz, nextDecay, lastReq, recalled, shown, registryVars>>
    /\ UNCHANGED agentVars
    /\ UNCHANGED lifeVars

\* A client of the store package calls Store.CreateMemory with a memory of
\* its own making: the id is a new one or one of a stored row.
CreateMemoryCall(ids, types, scopes) ==
    \E id \in ids, type \in types, scope \in scopes,
       written \in BOOLEAN :
      CreateMemory([id |-> id, type |-> type, scope |-> scope, project |-> NoProject,
                    source |-> "api", content |-> <<"a", "b">>, summary |-> <<"a">>,
                    topics |-> TopicsJSON(<<>>), confidence |-> ConfidenceMin,
                    importance |-> DecayFloor, lastAccessed |-> LocalTime(now - Day),
                    accessCount |-> 0, embedding |-> TRUE],
                   written, "CreateMemory")

(* ------------------------- rememberCmd, statusCmd --------------------- *)

\* maxLen of `truncate(content, 100)`.
SummaryMax == 100

\* truncate(s, maxLen).
Truncate(s, maxLen) ==
    IF Len(s) <= maxLen THEN s ELSE SubSeq(s, 1, maxLen - 3) \o <<".", ".", ".">>

\* Mutant: the memory is built as processBatch builds one, with source git.
ManualMemoryAsExtracted(id, type, content) ==
    [id |-> id, type |-> type, scope |-> "personal", project |-> NoProject,
     source |-> "git", content |-> content,
     summary |-> Truncate(content, SummaryMax), topics |-> TopicsJSON(<<>>),
     confidence |-> ConfidenceOne, importance |-> ImportanceInit,
     lastAccessed |-> LocalTime(now), accessCount |-> 0, embedding |-> FALSE]

\* The models.Memory rememberCmd builds (no --topics given).
ManualMemory(id, type, content) ==
    [id |-> id, type |-> type, scope |-> "personal", project |-> NoProject,
     source |-> "manual", content |-> content,
     summary |-> Truncate(content, SummaryMax), topics |-> TopicsJSON(<<>>),
     confidence |-> ConfidenceOne, importance |-> ImportanceInit,
     lastAccessed |-> LocalTime(now), accessCount |-> 0, embedding |-> FALSE]

\* memorypilot remember --type <type> <content>: the memory gets a new ULID
\* and goes to Store.CreateMemory; its error is the command's error.
RememberCmd(types, contents) ==
    \E type \in types, content \in contents, written \in BOOLEAN :
      CreateMemory(ManualMemory(Len(memories) + 1, type, content), written,
                   "rememberCmd")

\* The MCP tool memorypilot_remember: handleRemember replaces an empty type
\* by fact and answers "Remembered: ..."; it creates nothing (TODO).
HandleRemember(types, contents) ==
    \E type \in types, content \in contents :
      /\ asked' = ManualMemory(Len(memories) + 1,
                               IF type = "" THEN "fact" ELSE type, content)
      /\ reply' = "ok"
      /\ via' = "handleRemember"
      /\ calls' = calls + 1
      /\ UNCHANGED <<now, tz, nextDecay, lastReq, recalled, shown, registryVars>>
      /\ UNCHANGED memories
      /\ UNCHANGED agentVars
      /\ UNCHANGED lifeVars

\* Store.GetStats as statusCmd and handleStatus call it: the number of rows
\* of the memories table, or the error of the read.
Status(caller) ==
    /\ \E read \in BOOLEAN :
         IF read
         THEN /\ shown' = Len(memories)
              /\ reply' = "ok"
         ELSE /\ shown' = shown
              /\ reply' = "error"
    /\ via' = caller
    /\ calls' = calls + 1
    /\ UNCHANGED <<now, tz, nextDecay, lastReq, recalled, registryVars, asked>>
    /\ UNCHANGED memories
    /\ UNCHANGED agentVars
    /\ UNCHANGED lifeVars

(* ------------------- recalls and decay, statement by statement -------- *)

\* The table the concurrent clients start on: memory 1 (importance 0.95,
\* last accessed two days ago) and memory 2 (importance 0.945, just created).
ConcTable ==
    << ManualRow(1, 9500, -(2 * Day)), ManualRow(2, 9450, 0) >>

InitConc ==
    /\ AgentIdle
    /\ ClientIdle
    /\ tz = 0
    /\ memories = ConcTable

\* What the statements of the store leave alone.
StatementFrame ==
    /\ UNCHANGED <<now, tz, nextDecay, lastReq, recalled>>
    /\ UNCHANGED ifaceVars
    /\ UNCHANGED agentVars
    /\ UNCHANGED <<stopped, exited, decayUp, storePc, restarted, orphans>>
    /\ UNCHANGED edgeVars

\* Store.Recall, s.db.Query: the SELECT reads the rows it will return, in
\* order; the rows.Next loop has them before it.
RecallSelect(c, limit) ==
    /\ cursors[c] = <<>>
    /\ \E order \in Ranked(1..Len(memories), EffectiveLimit(limit)) :
         /\ order # <<>>
         /\ cursors' = [cursors EXCEPT ![c] = [k \in 1..Len(order) |-> memories[order[k]]]]
         /\ applied' = Append(applied, [kind |-> "select", id |-> 0, limit |-> limit])
    /\ via' = "Recall:select"
    /\ calls' = calls + 1
    /\ UNCHANGED memories
    /\ StatementFrame

\* Mutant: recordAccess computes the new values from the row as the SELECT
\* read it, and writes them back.
UpdatedRowFromRead(m, seen) ==
    [m EXCEPT !.lastAccessed = LocalTime(now),
              !.accessCount = seen.accessCount + 1,
              !.importance = Boost(seen.importance)]

\* The row after recordAccess's UPDATE: `access_count = access_count + 1,
\* importance = MIN(1.0, importance * 1.05)` are computed by the database
\* from the row as it is when the statement runs, not from the row `seen`
\* that the SELECT read.
UpdatedRow(m, seen) == RecordAccess(m)

\* One round of the rows.Next loop: s.recordAccess(m.ID), one UPDATE that
\* the database runs alone; when it fails the error is discarded.
RecallUpdate(c) ==
    /\ cursors[c] # <<>>
    /\ LET seen == Head(cursors[c]) IN
       \E ok \in BOOLEAN :
         IF ok
         THEN /\ memories' = [memories EXCEPT ![seen.id] = UpdatedRow(@, seen)]
              /\ applied' = Append(applied, [kind |-> "boost", id |-> seen.id, limit |-> 0])
         ELSE /\ memories' = memories
              /\ applied' = applied
    /\ cursors' = [cursors EXCEPT ![c] = Tail(@)]
    /\ via' = "recordAccess"
    /\ UNCHANGED calls
    /\ StatementFrame

\* Store.DecayImportance: one UPDATE that the database runs alone.
DecayStatement ==
    /\ \E ok \in BOOLEAN :
         IF ok
         THEN /\ memories' = [i \in 1..Len(memories) |->
                                IF DecayEligible(memories[i])
                                THEN Decay(memories[i]) ELSE memories[i]]
              /\ applied' = Append(applied, [kind |-> "decay", id |-> 0, limit |-> 0])
              /\ via' = "decay"
         ELSE /\ memories' = memories
              /\ applied' = applied
              /\ via' = "decay:failed"
    /\ UNCHANGED <<calls, cursors>>
    /\ StatementFrame

\* A client calls Store.Recall with limit 1 or 2.
ConcRecall ==
    /\ calls < MaxRecalls
    /\ \E c \in RecallClients, limit \in {1, 2} : RecallSelect(c, limit)

\* A client's rows.Next loop makes a round.
ConcUpdate == \E c \in RecallClients : RecallUpdate(c)

\* The decay scheduler's tick.
ConcDecay ==
    /\ Cardinality({k \in 1..Len(applied) : applied[k].kind = "decay"}) < MaxDecays
    /\ DecayStatement

NextConc ==
    \/ ConcRecall
    \/ ConcUpdate
    \/ ConcDecay

SpecConc == InitConc /\ [][NextConc]_vars

(* ------------------------------ SpecStats ---------------------------- *)

\* GetStats, first statement: SELECT COUNT(*) FROM memories into
\* stats.TotalMemories; on an error GetStats returns it.
StatsTotal(caller) ==
    /\ stats.pc = "idle"
    /\ \E read \in BOOLEAN :
         IF read
         THEN /\ stats' = [pc |-> "byType", TotalMemories |-> Len(memories),
                           ByType |-> [t \in StatTypes |-> 0]]
              /\ UNCHANGED <<reply, shown, via, calls>>
         ELSE /\ stats' = stats
              /\ reply' = "error"
              /\ shown' = shown
              /\ via' = caller
              /\ calls' = calls + 1
    /\ UNCHANGED <<now, tz, nextDecay, lastReq, recalled, registryVars, asked>>
    /\ UNCHANGED <<stopped, exited, decayUp, storePc, restarted, orphans, cursors, applied>>
    /\ UNCHANGED <<server, fwVars, twVars, gwVars>>
    /\ UNCHANGED memories
    /\ UNCHANGED agentVars

\* GetStats, second statement: SELECT type, COUNT(*) FROM memories GROUP BY
\* type into stats.ByType, then the count of the projects; GetStats returns
\* and handleStatus prints the total and the counts by type.
StatsByType(caller) ==
    /\ stats.pc = "byType"
    /\ \E read \in BOOLEAN :
         IF read
         THEN /\ stats' = [pc |-> "idle", TotalMemories |-> stats.TotalMemories,
                           ByType |-> [t \in StatTypes |->
                                         Cardinality({i \in 1..Len(memories) :
                                                        memories[i].type = t})]]
              /\ reply' = "ok"
              /\ shown' = stats.TotalMemories
         ELSE /\ stats' = [stats EXCEPT !.pc = "idle"]
              /\ reply' = "error"
              /\ shown' = shown
    /\ via' = caller
    /\ calls' = calls + 1
    /\ UNCHANGED <<now, tz, nextDecay, lastReq, recalled, registryVars, asked>>
    /\ UNCHANGED <<stopped, exited, decayUp, storePc, restarted, orphans, cursors, applied>>
    /\ UNCHANGED <<server, fwVars, twVars, gwVars>>
    /\ UNCHANGED memories
    /\ UNCHANGED agentVars

\* tools/call memorypilot_status enters GetStats.
StatusBegin ==
    /\ calls < MaxRecalls + MaxAged
    /\ StatsTotal("handleStatus")

\* GetStats goes on to its second statement and returns.
StatusEnd == StatsByType("handleStatus")

\* Another process runs memorypilot remember.
StatsRemember ==
    /\ calls < MaxRecalls + MaxAged
    /\ Len(memories) < MaxAged
    /\ RememberCmd({"decision", "fact"}, {<<"a", "b">>, <<"b", "x">>})

NextStats ==
    \/ StatusBegin
    \/ StatusEnd
    \/ StatsRemember

SpecStats == Init /\ [][NextStats]_vars

(* ------------------------------- SpecLive ---------------------------- *)

\* The queue case, Store.CreateEvent succeeding.
LiveQueueCase ==
    /\ QueueCase
    /\ createFailed' = createFailed

\* extractor.Extract returns a list, not an error.
LiveExtractReturn ==
    /\ ExtractReturn
    /\ ~extractFailed'

\* A round of the marking loop, Store.MarkEventProcessed succeeding.
LiveMarkProcessed ==
    /\ MarkProcessed
    /\ markFailed' = markFailed

\* The agent without a shutdown, a failing event store or a failing
\* extractor.
NextLive ==
    \/ ProducerSubmit
    \/ TimerExpire
    \/ LiveQueueCase
    \/ TimerCase
    \/ LiveExtractReturn
    \/ SaveCandidate
    \/ LiveMarkProcessed

\* Go chooses among the ready cases of the select at random, so a case that
\* stays ready is taken; the runtime fires an armed timer; the calls the
\* dispatcher makes return.
LiveFair ==
    /\ WF_vars(TimerExpire)
    /\ WF_vars(LiveQueueCase)
    /\ WF_vars(TimerCase)
    /\ WF_vars(LiveExtractReturn)
    /\ WF_vars(SaveCandidate)
    /\ WF_vars(LiveMarkProcessed)

SpecLive == Init /\ [][NextLive]_vars /\ LiveFair

(* ------------------------------ SpecFrame ---------------------------- *)

\* Store.UpdateMemoryEmbedding(id, emb), as processBatch calls it for the
\* memory it has just created: the row's embedding is set, or the write
\* fails and the row is as it was.
UpdateMemoryEmbedding(id) ==
    /\ \E ok \in BOOLEAN :
         memories' = IF ok THEN [memories EXCEPT ![id].embedding = TRUE] ELSE memories
    /\ via' = "UpdateMemoryEmbedding"
    /\ UNCHANGED <<calls, cursors, applied>>
    /\ StatementFrame

\* The daemon starts on the table of two memories, in the zone of UTC.
InitFrame ==
    /\ AgentIdle
    /\ ClientIdle
    /\ tz = 0
    /\ memories = ConcTable

\* tools/call memorypilot_recall without query, with limit 1 or without.
FrameRecall ==
    /\ calls < MaxRecalls
    /\ HandleRecall({<<>>}, {0, 1})

\* memorypilot remember, while the table has at most MaxAged rows more
\* than at the start.
FrameRemember ==
    /\ calls < MaxRecalls
    /\ Len(memories) < Len(ConcTable) + MaxAged
    /\ RememberCmd({"decision", "note"}, {<<"b", "x">>})

\* The embedding of a memory that has none is stored.
FrameEmbed ==
    \E id \in 1..Len(memories) :
      /\ ~memories[id].embedding
      /\ UpdateMemoryEmbedding(id)

\* Recalls, decay runs, creations and embedding updates on one store.
NextFrame ==
    \/ FrameRecall
    \/ FrameRemember
    \/ FrameEmbed
    \/ DecayRun
    \/ Tick

SpecFrame == InitFrame /\ [][NextFrame]_vars

(* ------------------------------ SpecServer --------------------------- *)

\* The ids of the requests the assistant sends; NoId: the line has none.
RequestIds == {1, 2}
NoId == 0

\* JSON-RPC error codes of sendError; 0 stands for a result.
ParseError == -32700
MethodNotFound == -32601
InvalidParams == -32602
StoreFailure == -32000
ResultCode == 0

\* The lines the assistant may write: text that is not JSON, a JSON scalar,
\* the JSON null, and JSON objects with an id, a method and, for tools/call,
\* params: absent or of a wrong shape ("bad"), or naming a tool.
RequestLines ==
    {[json |-> j, id |-> NoId, method |-> "", tool |-> ""] :
        j \in {"garbage", "scalar", "null"}}
    \cup {[json |-> "object", id |-> i, method |-> m, tool |-> ""] :
            i \in RequestIds, m \in {"initialize", "tools/list", "ping"}}
    \cup {[json |-> "object", id |-> i, method |-> "tools/call", tool |-> t] :
            i \in RequestIds,
            t \in {"bad", "memorypilot_recall", "memorypilot_remember",
                   "memorypilot_status", "other"}}

\* json.Unmarshal([]byte(line), &req): an error for text that is not JSON or
\* is not an object; null leaves req as it was declared, with no error.
UnmarshalRequest(line) ==
    IF line.json \in {"garbage", "scalar"}
    THEN [err |-> TRUE, ID |-> NoId, Method |-> "", Params |-> ""]
    ELSE IF line.json = "null"
         THEN [err |-> FALSE, ID |-> NoId, Method |-> "", Params |-> ""]
         ELSE [err |-> FALSE, ID |-> line.id, Method |-> line.method, Params |-> line.tool]

\* Mutant: the error of a line that does not parse is answered with the id
\* of the message written before it.
SendWithLatestId(id, code) ==
    server' = [server EXCEPT
                 !.writer = Append(@, [id |-> IF code = ParseError /\ Len(@) > 0
                                             THEN @[Len(@)].id ELSE id,
                                       code |-> code]),
                 !.reader = Tail(@),
                 !.served = @ + 1]

\* sendResult / sendError for the line at the head of the reader, which
\* ReadString has returned: one message is written.
Send(id, code) ==
    server' = [server EXCEPT !.writer = Append(@, [id |-> id, code |-> code]),
                             !.reader = Tail(@),
                             !.served = @ + 1]

\* What a step of Run leaves alone.
ServerFrame ==
    /\ UNCHANGED <<now, tz, nextDecay>>
    /\ UNCHANGED registryVars
    /\ UNCHANGED agentVars
    /\ UNCHANGED <<stopped, exited, decayUp, storePc, restarted, orphans, cursors, applied>>
    /\ UNCHANGED <<stats, fwVars, twVars, gwVars>>

\* The store is not called.
StoreUntouched == UNCHANGED <<memories, calls, via, lastReq, recalled, reply, shown, asked>>

\* Run: sendServerInfo, before the loop.
ServerStart ==
    /\ server.pc = "new"
    /\ server' = [server EXCEPT !.writer = Append(@, [id |-> NoId, code |-> ResultCode]),
                                !.pc = "serving"]
    /\ StoreUntouched
    /\ ServerFrame

\* handleRecall: Store.Recall without query, the limit 0 replaced by 5; the
\* error of the SELECT is answered with -32000.
ToolRecall(id) ==
    /\ \E queried \in BOOLEAN :
         IF queried
         THEN \E order \in Ranked(1..Len(memories), EffectiveLimit(DefaultLimit)) :
                \E failed \in SUBSET Range(order) :
                  /\ recalled' = [k \in 1..Len(order) |-> memories[order[k]]]
                  /\ memories' = [i \in 1..Len(memories) |->
                                    IF i \in Range(order) \ failed
                                    THEN RecordAccess(memories[i]) ELSE memories[i]]
                  /\ reply' = "ok"
                  /\ Send(id, ResultCode)
         ELSE /\ UNCHANGED <<recalled, memories>>
              /\ reply' = "error"
              /\ Send(id, StoreFailure)
    /\ lastReq' = RecallArgs(<<>>, {}, {}, NoProject, 0)
    /\ via' = "handleRecall"
    /\ calls' = calls + 1
    /\ UNCHANGED <<shown, asked>>

\* handleRemember: the answer "Remembered: ...", nothing is created.
ToolRemember(id) ==
    /\ asked' = ManualMemory(Len(memories) + 1, "fact", <<"b", "x">>)
    /\ reply' = "ok"
    /\ via' = "handleRemember"
    /\ calls' = calls + 1
    /\ Send(id, ResultCode)
    /\ UNCHANGED <<memories, lastReq, recalled, shown>>

\* handleStatus: GetStats, its error answered with -32000.
ToolStatus(id) ==
    /\ \E read \in BOOLEAN :
         IF read
         THEN /\ shown' = Len(memories)
              /\ reply' = "ok"
              /\ Send(id, ResultCode)
         ELSE /\ shown' = shown
              /\ reply' = "error"
              /\ Send(id, StoreFailure)
    /\ via' = "handleStatus"
    /\ calls' = calls + 1
    /\ UNCHANGED <<memories, lastReq, recalled, asked>>

\* handleToolsCall: the params are unmarshalled, the tool is looked up.
HandleToolsCall(req) ==
    CASE req.Params \in {"", "bad"} -> Send(req.ID, InvalidParams) /\ StoreUntouched
      [] req.Params = "memorypilot_recall" -> ToolRecall(req.ID)
      [] req.Params = "memorypilot_remember" -> ToolRemember(req.ID)
      [] req.Params = "memorypilot_status" -> ToolStatus(req.ID)
      [] OTHER -> Send(req.ID, InvalidParams) /\ StoreUntouched

\* handleRequest: the switch on req.Method.
HandleRequest(req) ==
    CASE req.Method \in {"initialize", "tools/list"} ->
           Send(req.ID, ResultCode) /\ StoreUntouched
      [] req.Method = "tools/call" -> HandleToolsCall(req)
      [] OTHER -> Send(req.ID, MethodNotFound) /\ StoreUntouched

\* One round of Run's loop: ReadString returns a line, it is unmarshalled
\* and answered.
ServeLine ==
    /\ server.pc = "serving"
    /\ server.reader # <<>>
    /\ LET req == UnmarshalRequest(Head(server.reader)) IN
         IF req.err
         THEN Send(NoId, ParseError) /\ StoreUntouched
         ELSE HandleRequest(req)
    /\ ServerFrame

\* ReadString returns io.EOF, with the text after the last newline if there
\* is any: Run returns nil.
ServerReturn ==
    /\ server.pc = "serving"
    /\ server.reader = <<>>
    /\ server.eof # "open"
    /\ server' = [server EXCEPT !.pc = "returned"]
    /\ StoreUntouched
    /\ ServerFrame

\* The assistant writes a line to the server's standard input.
ClientWrite ==
    /\ server.eof = "open"
    /\ server.written < MaxLines
    /\ \E line \in RequestLines :
         server' = [server EXCEPT !.reader = Append(@, line), !.written = @ + 1]
    /\ StoreUntouched
    /\ ServerFrame

\* The assistant closes the input, after a newline or in the middle of a line.
ClientClose ==
    /\ server.eof = "open"
    /\ \E how \in {"closed", "closedMidLine"} : server' = [server EXCEPT !.eof = how]
    /\ StoreUntouched
    /\ ServerFrame

NextServer ==
    \/ ServerStart
    \/ ServeLine
    \/ ServerReturn
    \/ ClientWrite
    \/ ClientClose

\* Run is one sequential loop and the calls it makes return.
ServerFair ==
    /\ WF_vars(ServerStart)
    /\ WF_vars(ServeLine)
    /\ WF_vars(ServerReturn)

SpecServer == InitFrame /\ [][NextServer]_vars /\ ServerFair

(* ------------------------------ SpecFiles ---------------------------- *)

\* FileWatcher.debounce, in ticks of the clock.
Debounce == 2

\* The notifications in the log so far.
Notifs == {k \in 1..Len(fileLog) : fileLog[k].what = "notified"}

\* watch: an interesting fsnotify event for the path; under pendingMux,
\* w.pending[event.Name] = time.Now().
FsNotify ==
    /\ Cardinality(Notifs) < MaxNotifs
    /\ \E path \in WatchedPaths :
         /\ pending' = [pending EXCEPT ![path] = fsClock]
         /\ fileLog' = Append(fileLog, [path |-> path, at |-> fsClock, what |-> "notified"])
    /\ UNCHANGED fsClock
    /\ UNCHANGED producerVars
    /\ UNCHANGED <<stats, server, twVars, gwVars>>
    /\ EdgeFrame

\* Mutant: every pending path is flushed at the next tick.
FlushDueAtOnce(lastSeen) == fsClock - lastSeen >= 0

\* `if now.Sub(lastSeen) >= w.debounce`.
FlushDue(lastSeen) == fsClock - lastSeen >= Debounce

\* emitEvent for the paths of `order`, one after the other: os.Stat fails
\* for the paths of `gone` (nothing is sent); for the others the event is
\* sent if the channel has room and dropped if not.  `st` is the queue, the
\* next event id, the dropped ids and the log before the calls.
RECURSIVE EmitEvents(_, _, _)
EmitEvents(order, gone, st) ==
    IF order = <<>> THEN st
    ELSE LET path == Head(order)
             fate == IF path \in gone THEN "gone"
                     ELSE IF QueueHasRoom(st.queue) THEN "sent" ELSE "dropped"
         IN EmitEvents(Tail(order), gone,
              [queue |-> IF fate = "sent" THEN Append(st.queue, st.next) ELSE st.queue,
               next |-> IF fate = "gone" THEN st.next ELSE st.next + 1,
               dropped |-> IF fate = "dropped" THEN st.dropped \cup {st.next}
                           ELSE st.dropped,
               log |-> Append(st.log, [path |-> path, at |-> fsClock, what |-> fate])])

\* The orders `for path, lastSeen := range w.pending` may visit a set of
\* paths in.
RECURSIVE RangeOrders(_)
RangeOrders(paths) ==
    IF paths = {} THEN {<<>>}
    ELSE UNION {{<<p>> \o rest : rest \in RangeOrders(paths \ {p})} : p \in paths}

\* debounceLoop: the ticker fires and flushPending runs under pendingMux:
\* every path that is due is handed to emitEvent and deleted from the map.
FlushPending ==
    /\ LET due == {p \in WatchedPaths : pending[p] # NotPending /\ FlushDue(pending[p])} IN
       /\ due # {}
       /\ \E order \in RangeOrders(due), gone \in SUBSET due :
            LET out == EmitEvents(order, gone,
                         [queue |-> eventQueue, next |-> nextId, dropped |-> dropped,
                          log |-> fileLog])
            IN /\ eventQueue' = out.queue
               /\ nextId' = out.next
               /\ dropped' = out.dropped
               /\ fileLog' = out.log
       /\ pending' = [p \in WatchedPaths |-> IF p \in due THEN NotPending ELSE pending[p]]
    /\ UNCHANGED fsClock
    /\ UNCHANGED <<stats, server, twVars, gwVars>>
    /\ EdgeFrame

\* Time passes.
FsTick ==
    /\ fsClock < MaxFsClock
    /\ fsClock' = fsClock + 1
    /\ UNCHANGED <<pending, fileLog>>
    /\ UNCHANGED producerVars
    /\ UNCHANGED <<stats, server, twVars, gwVars>>
    /\ EdgeFrame

NextFiles ==
    \/ FsNotify
    \/ FlushPending
    \/ FsTick

SpecFiles == Init /\ [][NextFiles]_vars

(* ------------------------------- SpecTail ---------------------------- *)

\* The shell appends a command to its history file.
ShellAppend ==
    /\ appended < MaxHistory
    /\ appended' = appended + 1
    /\ historyFile' = Append(historyFile, appended + 1)
    /\ UNCHANGED <<terminalWatcher, examined>>
    /\ UNCHANGED producerVars
    /\ UNCHANGED <<stats, server, fwVars, gwVars>>
    /\ EdgeFrame

\* The shell rewrites its history file, keeping the latest lines only: the
\* file is shorter than it was.
ShellTrim ==
    /\ \E keep \in 0..(Len(historyFile) - 1) :
         historyFile' = SubSeq(historyFile, Len(historyFile) - keep + 1, Len(historyFile))
    /\ UNCHANGED <<terminalWatcher, appended, examined>>
    /\ UNCHANGED producerVars
    /\ UNCHANGED <<stats, server, fwVars, gwVars>>
    /\ EdgeFrame

\* TerminalWatcher.Start: lastPositions[path] = info.Size() of the file as
\* it is; the lines written so far are those present before Start.
TailStart ==
    /\ terminalWatcher.pc = "new"
    /\ terminalWatcher' = [pc |-> "idle", lastPositions |-> Len(historyFile),
                           currentSize |-> 0, startedAt |-> appended]
    /\ UNCHANGED <<historyFile, appended, examined>>
    /\ UNCHANGED producerVars
    /\ UNCHANGED <<stats, server, fwVars, gwVars>>
    /\ EdgeFrame

\* checkHistory, from the tick to os.Open: os.Stat gives currentSize; `if
\* currentSize <= lastPos { continue }`.
CheckHistoryStat ==
    /\ terminalWatcher.pc = "idle"
    /\ terminalWatcher' =
         [terminalWatcher EXCEPT
            !.currentSize = Len(historyFile),
            !.pc = IF Len(historyFile) <= terminalWatcher.lastPositions
                   THEN "idle" ELSE "read"]
    /\ UNCHANGED <<historyFile, appended, examined>>
    /\ UNCHANGED producerVars
    /\ UNCHANGED <<stats, server, fwVars, gwVars>>
    /\ EdgeFrame

\* emitEvent for n commands, one after the other: each event is sent if the
\* channel has room and dropped if not.
RECURSIVE SendAll(_, _)
SendAll(n, st) ==
    IF n = 0 THEN st
    ELSE SendAll(n - 1,
           [queue |-> IF QueueHasRoom(st.queue) THEN Append(st.queue, st.next) ELSE st.queue,
            next |-> st.next + 1,
            dropped |-> IF QueueHasRoom(st.queue) THEN st.dropped
                        ELSE st.dropped \cup {st.next}])

\* file.Seek(lastPos, 0) and scanner.Scan() until it returns false: the
\* lines of the file, as it is now, from lastPos to its end.
LinesRead(lastPos, currentSize) ==
    SubSeq(historyFile, lastPos + 1, Len(historyFile))

\* checkHistory, from os.Open on: the lines after lastPos are scanned and
\* emitted (the commands are interesting ones), and lastPositions[path]
\* becomes the currentSize of the os.Stat.
CheckHistoryRead ==
    /\ terminalWatcher.pc = "read"
    /\ LET lines == LinesRead(terminalWatcher.lastPositions, terminalWatcher.currentSize)
           out == SendAll(Len(lines),
                          [queue |-> eventQueue, next |-> nextId, dropped |-> dropped])
       IN /\ examined' = examined \o lines
          /\ eventQueue' = out.queue
          /\ nextId' = out.next
          /\ dropped' = out.dropped
    /\ terminalWatcher' = [terminalWatcher EXCEPT
                             !.lastPositions = terminalWatcher.currentSize,
                             !.pc = "idle"]
    /\ UNCHANGED <<historyFile, appended>>
    /\ UNCHANGED <<stats, server, fwVars, gwVars>>
    /\ EdgeFrame

NextTail ==
    \/ ShellAppend
    \/ ShellTrim
    \/ TailStart
    \/ CheckHistoryStat
    \/ CheckHistoryRead

SpecTail == Init /\ [][NextTail]_vars

(* ------------------------------- SpecGit ----------------------------- *)

\* A commit is made in a repository, or its head is moved to another commit.
RepoCommit ==
    /\ \E repo \in Repos, hash \in 1..MaxHashes :
         /\ repoHead[repo] # hash
         /\ repoHead' = [repoHead EXCEPT ![repo] = hash]
    /\ UNCHANGED <<lastCommit, gitLog>>
    /\ UNCHANGED producerVars
    /\ UNCHANGED <<stats, server, fwVars, twVars>>
    /\ EdgeFrame

\* Mutant: the hash is recorded only when the event was sent.
RecordCommitIfSent(repo, hash, seen, sent) ==
    IF seen /\ ~sent THEN lastCommit ELSE [lastCommit EXCEPT ![repo] = hash]

\* `w.lastCommit[repoPath] = hash`, before the event is built.
RecordCommit(repo, hash, seen, sent) ==
    [lastCommit EXCEPT ![repo] = hash]

\* What checkRepo does with the hash git log printed: "same" (`seen &&
\* lastHash == hash`: return), "first" (`!seen`: recorded, return), or the
\* event is built and sent, or dropped when the channel is full.
ScanOutcome(repo, hash) ==
    IF lastCommit[repo] = hash THEN "same"
    ELSE IF lastCommit[repo] = NoCommit THEN "first"
    ELSE IF QueueHasRoom(eventQueue) THEN "sent" ELSE "dropped"

\* scanGitRepos finds the repository and calls checkRepo: git log fails in a
\* repository without a commit (return); otherwise the hash is compared,
\* recorded, and the event is submitted.
CheckRepo ==
    /\ Len(gitLog) < MaxScans
    /\ \E repo \in Repos :
         LET hash == repoHead[repo] IN
         IF hash = NoCommit
         THEN /\ gitLog' = Append(gitLog, [repo |-> repo, hash |-> hash, what |-> "failed"])
              /\ UNCHANGED lastCommit
              /\ UNCHANGED producerVars
         ELSE LET what == ScanOutcome(repo, hash)
                  out == SendAll(IF what \in {"sent", "dropped"} THEN 1 ELSE 0,
                                 [queue |-> eventQueue, next |-> nextId, dropped |-> dropped])
              IN /\ gitLog' = Append(gitLog, [repo |-> repo, hash |-> hash, what |-> what])
                 /\ lastCommit' = IF what = "same" THEN lastCommit
                                  ELSE RecordCommit(repo, hash, what # "first", what = "sent")
                 /\ eventQueue' = out.queue
                 /\ nextId' = out.next
                 /\ dropped' = out.dropped
    /\ UNCHANGED repoHead
    /\ UNCHANGED <<stats, server, fwVars, twVars>>
    /\ EdgeFrame

NextGit ==
    \/ RepoCommit
    \/ CheckRepo

SpecGit == Init /\ [][NextGit]_vars

(* --------------------------- project registry ------------------------- *)

\* INSERT OR REPLACE INTO projects: the rows that conflict with the new one
\* on `id TEXT PRIMARY KEY` or on `path TEXT UNIQUE NOT NULL` are deleted,
\* then the row is inserted.
Replaced(rows, p) == {r \in rows : r.id # p.id /\ r.path # p.path} \cup {p}

\* Store.CreateProject(p).
CreateProject(p, written) ==
    /\ IF written
       THEN /\ projects' = Replaced(projects, p)
            /\ upserted' = [upserted EXCEPT ![p.path] = <<p>>]
            /\ reply' = "ok"
       ELSE /\ projects' = projects
            /\ upserted' = upserted
            /\ reply' = "error"
    /\ via' = "CreateProject"
    /\ calls' = calls + 1
    /\ UNCHANGED <<now, tz, nextDecay, lastReq, recalled, shown, found, asked>>
    /\ UNCHANGED memories
    /\ UNCHANGED agentVars
    /\ UNCHANGED lifeVars

\* Store.GetProjectByPath(path): the row with that path, (nil, nil) on
\* sql.ErrNoRows, the error of the read otherwise.
GetProjectByPath(path, read) ==
    /\ IF read
       THEN /\ found' = [path |-> path,
                         rows |-> IF \E r \in projects : r.path = path
                                  THEN <<CHOOSE r \in projects : r.path = path>>
                                  ELSE <<>>]
            /\ reply' = "ok"
       ELSE /\ found' = [path |-> path, rows |-> <<>>]
            /\ reply' = "error"
    /\ via' = "GetProjectByPath"
    /\ calls' = calls + 1
    /\ UNCHANGED <<now, tz, nextDecay, lastReq, recalled, shown, projects, upserted, asked>>
    /\ UNCHANGED memories
    /\ UNCHANGED agentVars
    /\ UNCHANGED lifeVars

\* A caller registers a project.
RegistryUpsert ==
    /\ calls < MaxProjectOps
    /\ \E id \in ProjectIds, path \in ProjectPaths, name \in ProjectNames,
          written \in BOOLEAN :
         CreateProject([id |-> id, name |-> name, path |-> path], written)

\* A caller looks a path up.
RegistryFind ==
    /\ calls < MaxProjectOps
    /\ \E path \in ProjectPaths, read \in BOOLEAN : GetProjectByPath(path, read)

NextProjects == RegistryUpsert \/ RegistryFind

SpecProjects == Init /\ [][NextProjects]_vars

(* ------------------------------ Agent.Stop ---------------------------- *)

\* a.watchers: startWatchers appends the git, the file and the terminal
\* watcher, in this order, each one after its Start() returned nil.
WatcherOrder == <<"git", "file", "terminal">>

\* What the steps of Agent.Stop and of the goroutines' returns leave alone.
StopFrame ==
    /\ UNCHANGED <<now, tz, nextDecay, calls, via, lastReq, recalled, restarted, orphans>>
    /\ UNCHANGED <<cursors, applied, edgeVars>>
    /\ UNCHANGED ifaceVars
    /\ UNCHANGED agentVars
    /\ UNCHANGED memories

\* `for _, w := range a.watchers { w.Stop() }`, one round: Stop() closes the
\* watcher's stopChan (the file watcher's also closes its fsnotify watcher)
\* and returns; it does not wait for the watcher's goroutine.
StopWatcher ==
    /\ ctxDone
    /\ storePc = "open"
    /\ Len(stopped) < Len(WatcherOrder)
    /\ stopped' = Append(stopped, WatcherOrder[Len(stopped) + 1])
    /\ UNCHANGED <<exited, decayUp, storePc>>
    /\ StopFrame

\* watch(): `case <-w.stopChan: return`.
WatcherExit ==
    /\ \E w \in Range(stopped) \ exited : exited' = exited \cup {w}
    /\ UNCHANGED <<stopped, decayUp, storePc>>
    /\ StopFrame

\* decayLoop: `case <-a.ctx.Done(): return`, with the deferred a.wg.Done().
DecayExit ==
    /\ decayUp
    /\ ctxDone
    /\ decayUp' = FALSE
    /\ UNCHANGED <<stopped, exited, storePc>>
    /\ StopFrame

\* a.wg.Wait() returns: the two goroutines counted by a.wg.Add(1) in Start,
\* processEvents and decayLoop, have called a.wg.Done().
WaitReturn ==
    /\ storePc = "open"
    /\ Len(stopped) = Len(WatcherOrder)
    /\ pc = "done"
    /\ ~decayUp
    /\ storePc' = "waited"
    /\ UNCHANGED <<stopped, exited, decayUp>>
    /\ StopFrame

\* a.store.Close().
CloseStore ==
    /\ storePc = "waited"
    /\ storePc' = "closed"
    /\ UNCHANGED <<stopped, exited, decayUp>>
    /\ StopFrame

\* A watcher whose goroutine has not returned submits an event.
WatcherSubmit ==
    /\ nextId <= StopEvents
    /\ \E p \in Producers \ exited : Submit(p)

NextStop ==
    \/ WatcherSubmit
    \/ Cancel
    \/ TimerExpire
    \/ ShutdownCase
    \/ QueueCase
    \/ TimerCase
    \/ ExtractReturn
    \/ SaveCandidate
    \/ MarkAfterError
    \/ MarkProcessed
    \/ StopWatcher
    \/ WatcherExit
    \/ DecayExit
    \/ WaitReturn
    \/ CloseStore

SpecStop == Init /\ [][NextStop]_vars

(* ------------------------- kill and Agent.Start ----------------------- *)

\* Store.GetUnprocessedEvents(limit): the events whose processed_at is NULL,
\* by ascending timestamp (the order in which they were created and
\* stored), the first `limit` of them.
GetUnprocessedEvents(limit) ==
    LET unmarked == SelectSeq(events, LAMBDA e : e \notin processed)
    IN SubSeq(unmarked, 1, IF Len(unmarked) < limit THEN Len(unmarked) ELSE limit)

\* The daemon is killed and started again.  The store's tables are on disk
\* and survive; the channel, the batch and the positions of the goroutines
\* do not.  agent.New makes an empty channel and Agent.Start starts
\* processEvents, the watchers and decayLoop: it reads no event from the
\* store.
KillAndStart ==
    /\ ~restarted
    /\ restarted' = TRUE
    /\ orphans' = Range(GetUnprocessedEvents(Len(events)))
    /\ eventQueue' = <<>>
    /\ ctxDone' = FALSE
    /\ pc' = "select"
    /\ batch' = <<>>
    /\ trigger' = "none"
    /\ timer' = "armed"
    /\ cands' = <<>>
    /\ markIdx' = 1
    /\ stopped' = <<>>
    /\ exited' = {}
    /\ decayUp' = TRUE
    /\ storePc' = "open"
    /\ UNCHANGED <<nextId, dropped>>
    /\ UNCHANGED storeVars
    /\ UNCHANGED logVars
    /\ UNCHANGED <<now, tz, nextDecay, calls, via, lastReq, recalled>>
    /\ UNCHANGED ifaceVars
    /\ UNCHANGED <<cursors, applied, edgeVars>>

\* The producers submit an event.
RestartSubmit ==
    /\ nextId <= RestartEvents
    /\ ProducerSubmit

NextRestart ==
    \/ RestartSubmit
    \/ TimerExpire
    \/ QueueCase
    \/ TimerCase
    \/ ExtractReturn
    \/ SaveCandidate
    \/ MarkAfterError
    \/ MarkProcessed
    \/ KillAndStart

\* The goroutine of processEvents is scheduled, the timer fires and the
\* extractor answers (its HTTP client has a timeout).
DispatcherFair ==
    /\ WF_vars(TimerExpire)
    /\ WF_vars(QueueCase)
    /\ WF_vars(TimerCase)
    /\ WF_vars(ExtractReturn)
    /\ WF_vars(SaveCandidate)
    /\ WF_vars(MarkAfterError)
    /\ WF_vars(MarkProcessed)

SpecRestart == Init /\ [][NextRestart]_vars /\ DispatcherFair

(* ------------------------------ SpecWorkers --------------------------- *)

\* The producers submit an event.
WorkerSubmit ==
    /\ nextId <= WorkerEvents
    /\ ProducerSubmit

\* decayLoop, while it has not returned: `case <-ticker.C`.
WorkerDecay ==
    /\ decayUp
    /\ DecayRun

\* A day passes.
WorkerTick ==
    /\ now < MaxUptime * Day
    /\ now' = now + Day
    /\ UNCHANGED <<tz, nextDecay, calls, via, lastReq, recalled, memories>>
    /\ UNCHANGED ifaceVars
    /\ UNCHANGED agentVars
    /\ UNCHANGED lifeVars

\* The dispatcher and the decay scheduler of an agent, running and after
\* Agent.Stop's a.cancel(); the batches are flushed on size and on shutdown.
NextWorkers ==
    \/ WorkerSubmit
    \/ Cancel
    \/ ShutdownCase
    \/ QueueCase
    \/ ExtractReturn
    \/ SaveCandidate
    \/ MarkAfterError
    \/ MarkProcessed
    \/ WorkerDecay
    \/ DecayExit
    \/ WorkerTick

SpecWorkers == Init /\ [][NextWorkers]_vars

(* ------------------------------- SpecEmbed --------------------------- *)

\* The dispatcher, the calls of embedder.Embed recorded.
NextEmbed ==
    \/ WorkerSubmit
    \/ TimerExpire
    \/ QueueCase
    \/ TimerCase
    \/ ExtractReturn
    \/ SaveCandidateLogged
    \/ MarkAfterError
    \/ MarkProcessed

SpecEmbed == Init /\ [][NextEmbed]_vars

(* ------------------------------ SpecSurface --------------------------- *)

\* The memories table has room for one more row than the running
\* processBatch may still add.
Room == Len(memories) + Len(cands) < MaxMem

\* A client of the store makes its call while the dispatcher waits at its
\* select with nothing queued and nothing batched.
ClientTurn ==
    /\ calls < MaxRecalls
    /\ pc = "select"
    /\ batch = <<>>
    /\ eventQueue = <<>>

\* The daemon's producers submit one event.
SurfaceSubmit ==
    /\ nextId = 1
    /\ ProducerSubmit

\* memorypilot remember, with a type of the enum or another one.
CliRemember ==
    /\ ClientTurn
    /\ Room
    /\ RememberCmd({"decision", "note"}, {<<"a", "b">>, <<"b", "x">>})

\* tools/call memorypilot_remember, with or without a type.
McpRemember ==
    /\ ClientTurn
    /\ HandleRemember({"", "decision"}, {<<"a", "b">>})

\* memorypilot status.
CliStatus ==
    /\ ClientTurn
    /\ Status("statusCmd")

\* tools/call memorypilot_status.
McpStatus ==
    /\ ClientTurn
    /\ Status("handleStatus")

\* memorypilot recall b.
SurfaceCliRecall ==
    /\ ClientTurn
    /\ RecallCmd({<<"b">>}, {0}, {""}, {{}})

\* tools/call memorypilot_recall, with a query the content holds or not.
SurfaceMcpRecall ==
    /\ ClientTurn
    /\ HandleRecall({<<"b">>, <<"x">>}, {0})

\* A client of the store package creates a memory.
ApiCreate ==
    /\ ClientTurn
    /\ CreateMemoryCall(IF Room THEN 1..(Len(memories) + 1) ELSE 1..Len(memories),
                        {"fact", "note"}, {"team", "world"})

\* The command line and the MCP server on one store.
NextSurface ==
    \/ CliRemember
    \/ McpRemember
    \/ CliStatus
    \/ McpStatus
    \/ SurfaceCliRecall
    \/ SurfaceMcpRecall

SpecSurface == Init /\ [][NextSurface]_vars

(* ------------------------------- SpecCreate --------------------------- *)

\* The callers of Store.CreateMemory on one store: the dispatcher working
\* on one event, the command line and a client of the store package.
NextCreate ==
    \/ SurfaceSubmit
    \/ TimerExpire
    \/ QueueCase
    \/ TimerCase
    \/ ExtractReturn
    \/ SaveCandidate
    \/ MarkAfterError
    \/ MarkProcessed
    \/ CliRemember
    \/ ApiCreate

SpecCreate == Init /\ [][NextCreate]_vars

(* ------------------------------ claims -------------------------------- *)

\* The dispatcher is inside processBatch.
InFlight == pc \in {"extract", "save", "mark", "markErr"}

\* A step of a producer: an event was created and submitted.
SubmitStep == nextId' = nextId + 1

\* A step in which the dispatcher received an event from the channel.
DequeueStep == dequeued' # dequeued

\* C1: a producer's submit never blocks: while a producer has an event to
\* submit, the submit can be taken in every state (whatever the dispatcher is
\* doing, a running extraction included), and it appends the event when the
\* queue holds fewer than its capacity and otherwise drops it and leaves the
\* queue as it was.
C1_SubmitNeverBlocks ==
    /\ [](nextId <= MaxEvents => ENABLED ProducerSubmit)
    /\ [][SubmitStep =>
            IF Len(eventQueue) < QueueCap
            THEN eventQueue' = Append(eventQueue, nextId) /\ dropped' = dropped
            ELSE eventQueue' = eventQueue /\ dropped' = dropped \cup {nextId}]_vars

\* C1 witness: the dispatcher is inside the extraction call, the queue is
\* full, and an event newer than all it holds was dropped at it (nothing was
\* dequeued since that drop).
C1_Witness ==
    /\ pc = "extract"
    /\ Len(eventQueue) = QueueCap
    /\ \E d \in dropped : \A i \in 1..Len(eventQueue) : eventQueue[i] < d

\* C2: the queue never holds more than its capacity, and while nothing has
\* been dequeued it holds the first `capacity` events submitted, in submission
\* order, every later one having been dropped.
C2_DropNewest ==
    /\ Len(eventQueue) <= QueueCap
    /\ dequeued = <<>> =>
         LET n == nextId - 1
             kept == IF n < QueueCap THEN n ELSE QueueCap
         IN /\ eventQueue = [i \in 1..kept |-> i]
            /\ dropped = (kept + 1)..n

\* C2 witness: more than `capacity` events were submitted and none dequeued.
C2_Witness == dequeued = <<>> /\ nextId - 1 > QueueCap

\* The IDs of a sequence increase strictly: creation (submission) order.
Increasing(s) == \A i, j \in 1..Len(s) : i < j => s[i] < s[j]

\* A step in which processBatch returns to its caller.
ReturnStep == InFlight /\ ~InFlight'

\* C3: flush on size.  A dequeued and stored event that brings the batch to
\* batchSize starts exactly one flush, of the batch with that event appended;
\* an earlier one only joins the batch and starts no flush.  A size-triggered
\* flush holds batchSize events, every flush holds its events in submission
\* order, and when a size-triggered flush returns the batch is empty and the
\* timer is armed again.
C3_FlushOnSize ==
    /\ [][(DequeueStep /\ events' # events) =>
            IF Len(batch) + 1 = BatchSize
            THEN /\ flushLog' = Append(flushLog, Append(batch, Head(eventQueue)))
                 /\ trigger' = "size"
                 /\ pc' = "extract"
            ELSE /\ flushLog' = flushLog
                 /\ batch' = Append(batch, Head(eventQueue))
                 /\ pc' = "select"]_vars
    /\ [][(ReturnStep /\ trigger = "size") =>
            /\ pc' = "select"
            /\ batch' = <<>>
            /\ timer' = "armed"
            /\ completed' = completed + 1
            /\ flushLog' = flushLog]_vars
    /\ [](\A k \in 1..Len(flushLog) : Increasing(flushLog[k]))
    /\ [](InFlight /\ trigger = "size" =>
            Len(batch) = BatchSize /\ flushLog[Len(flushLog)] = batch)

\* C3 witness: a size-triggered flush has returned; the batch is empty and
\* the timer armed.
C3_Witness ==
    /\ pc = "select"
    /\ batch = <<>>
    /\ timer = "armed"
    /\ completed >= 1
    /\ Len(flushLog[completed]) = BatchSize

\* The dispatcher receives the timer's tick.
TimerTickStep == pc = "select" /\ timer = "expired" /\ timer' # "expired"

\* C4: flush on time.  A tick that finds a non-empty batch starts exactly one
\* flush, of exactly that batch; a tick that finds the batch empty starts no
\* flush, touches neither the extractor nor the store, and only re-arms the
\* timer.  When a time-triggered flush returns the batch is empty and the
\* timer is armed again.
C4_FlushOnTime ==
    /\ [][TimerTickStep =>
            IF batch = <<>>
            THEN /\ timer' = "armed"
                 /\ pc' = "select"
                 /\ UNCHANGED <<batch, flushLog, completed, cands, eventQueue>>
                 /\ UNCHANGED storeVars
            ELSE /\ flushLog' = Append(flushLog, batch)
                 /\ trigger' = "time"
                 /\ pc' = "extract"
                 /\ batch' = batch]_vars
    /\ [][(ReturnStep /\ trigger = "time") =>
            /\ pc' = "select"
            /\ batch' = <<>>
            /\ timer' = "armed"
            /\ completed' = completed + 1
            /\ flushLog' = flushLog]_vars

\* C4 witness: one event was flushed alone by the timer (there was no
\* shutdown), and that flush has returned.
C4_Witness ==
    /\ pc = "select"
    /\ batch = <<>>
    /\ ~ctxDone
    /\ completed >= 1
    /\ Len(flushLog[completed]) = 1
    /\ BatchSize > 1

\* C5 (as claimed): once the shutdown signal has been raised the dispatcher
\* receives nothing more from the event queue.
C5_NoDequeueAfterShutdown == [][ctxDone => ~DequeueStep]_vars

\* The IDs of the events handed to extraction by the flushes 1 .. n.
FlushedIds(n) == UNION {Range(flushLog[k]) : k \in 1..n}

\* C6 (as claimed): every event the dispatcher has dequeued is in the event
\* store.
C6_EveryDequeuedPersisted == Range(dequeued) \subseteq Range(events)

\* C6 (amended): every dequeued event whose CreateEvent succeeded is in the
\* event store, in dequeue order, before it joins the batch, and stays there
\* whatever happens to its batch; the batch and every batch handed to
\* extraction hold stored events only.  The only dequeued events not in the
\* store are those whose CreateEvent failed: they were logged and are in no
\* batch.
C6_PersistedBeforeBatched ==
    /\ Range(dequeued) = Range(events) \cup createFailed
    /\ Range(events) \cap createFailed = {}
    /\ events = SelectSeq(dequeued, LAMBDA e : e \notin createFailed)
    /\ Range(batch) \subseteq Range(events)
    /\ FlushedIds(Len(flushLog)) \subseteq Range(events)
    /\ pc = "select" => Range(events) = FlushedIds(Len(flushLog)) \cup Range(batch)

\* C6 witness: a batch was handed to extraction and has returned, one event's
\* CreateEvent failed, and a stored event waits in the batch.
C6_Witness ==
    /\ completed >= 1
    /\ createFailed # {}
    /\ pc = "select"
    /\ batch # <<>>

\* No event is handed to extraction twice: the batches of the flush log are
\* duplicate-free and pairwise disjoint.
ExtractedAtMostOnce ==
    \A k \in 1..Len(flushLog) :
      /\ Increasing(flushLog[k])
      /\ \A j \in 1..Len(flushLog) :
           j # k => Range(flushLog[j]) \cap Range(flushLog[k]) = {}

\* The step in which processBatch returns after a failed extraction.
ErrorReturnStep == pc = "markErr" /\ ReturnStep

\* C7 (as claimed): when processBatch returns after a failed extraction,
\* every event of its batch is marked processed.
C7_AllMarkedAfterError == [][ErrorReturnStep => Range(batch) \subseteq processed']_vars

\* C7 (amended): after a failed extraction no memory is created, extraction
\* is not called again for the batch, MarkEventProcessed is attempted once for
\* each of its events, so that on return every event of the batch is marked
\* processed except those whose marking write failed, and the dispatcher goes
\* back to its select (or, on the shutdown flush, terminates).
C7_ExtractionErrorHandled ==
    /\ [][(pc = "markErr" \/ pc' = "markErr") =>
            /\ memories' = memories
            /\ Len(flushLog') = Len(flushLog)
            /\ pc' # "extract"]_vars
    /\ [][ErrorReturnStep =>
            /\ Range(batch) \subseteq processed' \cup markFailed'
            /\ processed' \cap markFailed' = {}
            /\ pc' = IF trigger = "shutdown" THEN "done" ELSE "select"]_vars
    /\ []ExtractedAtMostOnce

\* C7 witness: the extraction of a batch of batchSize events failed, all its
\* events were marked processed, no memory exists, and the dispatcher is back
\* in its select with the next event waiting in the queue.
C7_Witness ==
    /\ pc = "select"
    /\ extractFailed
    /\ completed >= 1
    /\ Len(flushLog[completed]) = BatchSize
    /\ Range(flushLog[completed]) \subseteq processed
    /\ memories = <<>>
    /\ eventQueue # <<>>

\* C8 (as claimed): every event of every flush that has returned is marked
\* processed.
C8_AllMarkedAfterFlush == FlushedIds(completed) \subseteq processed

\* C8 (amended): after a flush has returned, whatever its outcome, each of
\* its events is marked processed unless its own marking write failed; only
\* events of flushed batches are ever marked; no event is handed to extraction
\* twice.
C8_MarkedUnlessWriteFailed ==
    /\ FlushedIds(completed) \subseteq processed \cup markFailed
    /\ processed \cap markFailed = {}
    /\ processed \cup markFailed \subseteq FlushedIds(Len(flushLog))
    /\ InFlight =>
         (processed \cup markFailed) \cap Range(batch) =
            IF pc \in {"mark", "markErr"}
            THEN {batch[i] : i \in 1..(markIdx - 1)} ELSE {}
    /\ ExtractedAtMostOnce

\* C8 witness: two flushes have returned, the first created a memory, the
\* extraction of the second failed, and all their events are marked processed.
C8_Witness ==
    /\ completed >= 2
    /\ ~InFlight
    /\ extractFailed
    /\ memories # <<>>
    /\ FlushedIds(completed) \subseteq processed

\* C9 (as claimed): while a batch is inside extraction, every event of every
\* earlier batch is marked processed.
C9_EarlierBatchesMarked ==
    pc = "extract" => FlushedIds(Len(flushLog) - 1) \subseteq processed

\* C9 (amended): at most one batch is in flight, and a batch enters
\* extraction only after processBatch has returned for every earlier batch,
\* that is after the marking loop went through each of their events (marking
\* it, or failing to write the marker).
C9_SingleFlight ==
    /\ Len(flushLog) = completed + (IF InFlight THEN 1 ELSE 0)
    /\ pc = "extract" =>
         FlushedIds(Len(flushLog) - 1) \subseteq processed \cup markFailed

\* C9 witness: a second batch is inside extraction after the first returned.
C9_Witness ==
    /\ pc = "extract"
    /\ Len(flushLog) >= 2
    /\ FlushedIds(Len(flushLog) - 1) \subseteq processed

\* C10: every batch handed to extraction holds between 1 and batchSize
\* events, whatever the trigger, and while the dispatcher waits in its select
\* the batch holds fewer than batchSize events.
C10_BatchBounds ==
    /\ \A k \in 1..Len(flushLog) :
         /\ Len(flushLog[k]) >= 1
         /\ Len(flushLog[k]) <= BatchSize
    /\ InFlight => Len(batch) >= 1 /\ Len(batch) <= BatchSize
    /\ pc = "select" => Len(batch) < BatchSize

\* C10 witness: a full batch (size trigger) and a batch of one event (timer)
\* were flushed, and the shutdown flush of a partial batch is in flight.
C10_Witness ==
    /\ InFlight
    /\ trigger = "shutdown"
    /\ Len(batch) < BatchSize
    /\ \E k \in 1..completed : Len(flushLog[k]) = BatchSize
    /\ \E k \in 1..completed : Len(flushLog[k]) = 1

(* ------------------- claims: confidence and importance ---------------- *)

\* C11 (as claimed): every memory the extraction pipeline created comes from
\* a candidate whose confidence is at least 0.6, whatever the extractor
\* returned.
C11_OnlyAcceptedPersisted ==
    \A i \in 1..Len(memories) :
      memories[i].source = "git" => memories[i].confidence >= ConfidenceMin

\* C12 (as claimed): the confidence and the importance of every memory in
\* the store lie between 0 and 1.
C12_ScoresWithinUnit ==
    \A i \in 1..Len(memories) :
      /\ memories[i].confidence >= 0
      /\ memories[i].confidence <= ConfidenceOne
      /\ memories[i].importance >= 0
      /\ memories[i].importance <= ImportanceMax

(* --------------------- claims: recall's side effect ------------------- *)

\* A step in which a recall returned to its caller.
RecallStep == calls' = calls + 1

\* The rows (their indexes in the table) the recall of the step returned.
Returned == {recalled'[k].id : k \in 1..Len(recalled')}

\* The step recorded an access to row i.
Recorded(i) == memories'[i].accessCount = memories[i].accessCount + 1

\* C13 (as claimed): a recall updates every memory it returns exactly once:
\* the last-accessed timestamp becomes the current time, the access counter
\* grows by 1, the importance becomes min(1.0, importance * 1.05); it returns
\* no memory twice and leaves the other memories as they were.
C13_ReturnedUpdatedOnce ==
    [][RecallStep =>
         /\ \A k, l \in 1..Len(recalled') :
              recalled'[k].id = recalled'[l].id => k = l
         /\ \A i \in 1..Len(memories) :
              IF i \in Returned
              THEN /\ memories'[i].lastAccessed = now + tz
                   /\ memories'[i].accessCount = memories[i].accessCount + 1
                   /\ memories'[i].importance =
                        LET boosted == (memories[i].importance * 105 + 50) \div 100
                        IN IF boosted > 10000 THEN 10000 ELSE boosted
              ELSE memories'[i] = memories[i]]_vars

DecayStep == via' = "decay" /\ nextDecay' # nextDecay

\* C15 (as claimed): a decay run multiplies by 0.99 the importance of every
\* memory whose importance is above 0.1 and whose last access is more than a
\* day old, leaves the importance of every other memory as it was, and
\* changes no last-accessed timestamp and no access counter.
C15_DecayOldAboveFloor ==
    [][DecayStep =>
         \A i \in 1..Len(memories) :
           /\ memories'[i].lastAccessed = memories[i].lastAccessed
           /\ memories'[i].accessCount = memories[i].accessCount
           /\ memories'[i].importance =
                IF /\ memories[i].importance > 1000
                   /\ now - (memories[i].lastAccessed - tz) > Day
                THEN (memories[i].importance * 99 + 50) \div 100
                ELSE memories[i].importance]_vars

\* C16: a memory created with importance 1.0 keeps an importance above
\* 0.099 whatever decay runs and boosts follow; a memory at or below 0.1 is
\* lowered by no step, and a recorded access raises it.
C16_FloorKept ==
    /\ [](\A i \in 1..Len(memories) : memories[i].importance * 1000 > 99 * ImportanceInit)
    /\ [][\A i \in 1..Len(memories) :
            memories[i].importance * 10 <= ImportanceInit =>
              /\ memories'[i].importance >= memories[i].importance
              /\ Recorded(i) => memories'[i].importance > memories[i].importance]_vars

\* C16 witness: a memory that 230 decay runs had frozen below 0.1 was
\* recalled and is above 0.1 again, while a decay run that went through
\* since the start left another frozen memory where it was.
C16_Witness ==
    /\ \E k \in 1..Len(recalled) :
         /\ recalled[k].importance * 10 <= ImportanceInit
         /\ memories[recalled[k].id].importance * 10 > ImportanceInit
    /\ nextDecay > Day
    /\ \E i \in 1..Len(memories) :
         /\ memories[i].importance * 10 <= ImportanceInit
         /\ memories[i].accessCount = 0

(* ------------------------- claims: recall ----------------------------- *)

\* The callers whose recall is answered by Store.Recall.
KeywordPaths == {"Recall", "handleRecall", "recallCmd:keyword"}

\* The rows of the table that satisfy the filters of a request.
Found(req) == {i \in 1..Len(memories) : Matches(memories[i], req)}

\* Row a ranks strictly before row b: more important, or as important and
\* accessed later.
RanksBefore(a, b) ==
    \/ a.importance > b.importance
    \/ a.importance = b.importance /\ a.lastAccessed > b.lastAccessed

\* C17: a recall answered by Store.Recall returns, as they were before the
\* recall, the rows that satisfy the filters, by importance descending and
\* then last access descending, cut to the first `limit` of that order (to
\* the first 5 when the caller's limit is 0 or negative): no row twice, none
\* ranked before an earlier one, no row left out that ranks before a returned
\* one; on the table of A (0.9) and B (0.95), without query or filter and
\* with limit 5, it returns B then A.
C17_RankedAndCut ==
    [][RecallStep /\ via' \in KeywordPaths =>
         LET req == lastReq'
             cut == IF req.limit <= 0 THEN 5 ELSE req.limit
             n == Len(recalled')
         IN /\ n = IF Cardinality(Found(req)) < cut
                   THEN Cardinality(Found(req)) ELSE cut
            /\ \A k \in 1..n :
                 /\ recalled'[k].id \in Found(req)
                 /\ recalled'[k] = memories[recalled'[k].id]
            /\ \A k, l \in 1..n :
                 k < l => /\ recalled'[k].id # recalled'[l].id
                          /\ ~RanksBefore(recalled'[l], recalled'[k])
            /\ \A i \in Found(req) \ Returned :
                 \A k \in 1..n : ~RanksBefore(memories[i], recalled'[k])
            /\ ( /\ Len(memories) = 2
                 /\ memories[1].importance = 9000
                 /\ memories[2].importance = 9500
                 /\ req = RecallArgs(<<>>, {}, {}, NoProject, 5) )
                 => (n = 2 /\ recalled'[1].id = 2 /\ recalled'[2].id = 1)]_vars

\* C17 witness: a recall with a negative limit on a table of more than 5
\* rows, all of which satisfy the filters, returned 5 of them; among these
\* two of equal importance came in the order of their last access, and a
\* less important one came last.
C17_Witness ==
    /\ via \in KeywordPaths
    /\ lastReq.limit < 0
    /\ Cardinality(Found(lastReq)) > 5
    /\ Len(recalled) = 5
    /\ \E k \in 1..4 :
         /\ recalled[k].importance = recalled[k + 1].importance
         /\ recalled[k].lastAccessed > recalled[k + 1].lastAccessed
    /\ recalled[5].importance < recalled[1].importance

\* C18: every memory a recall answered by Store.Recall returns satisfies
\* each filter the caller gave: its scope is one of the scopes, its type one
\* of the types, its project the given project or none.
C18_FiltersEnforced ==
    via \in KeywordPaths =>
      \A k \in 1..Len(recalled) :
        /\ lastReq.scope # {} => recalled[k].scope \in lastReq.scope
        /\ lastReq.types # {} => recalled[k].type \in lastReq.types
        /\ lastReq.project # NoProject =>
             recalled[k].project \in {lastReq.project, NoProject}

\* C18 witness: a recall with scope = [project] on a table that holds
\* personal, project-scoped and team memories returned memories.
C18_Witness ==
    /\ via \in KeywordPaths
    /\ lastReq.scope = {"project"}
    /\ {"personal", "project", "team"} \subseteq
         {memories[i].scope : i \in 1..Len(memories)}
    /\ recalled # <<>>

\* The text holds the query as a substring, the case of ASCII letters aside.
Contains(q, text) ==
    \E k \in 0..(Len(text) - Len(q)) :
      \A j \in 1..Len(q) : FoldCase(q[j]) = FoldCase(text[k + j])

\* C19 (as claimed): whatever characters a non-empty query holds, a recall
\* answered by Store.Recall returns a memory only if the query is a
\* substring of its content, of its summary or of its serialized topic list.
C19_QueryIsSubstring ==
    (via \in KeywordPaths /\ lastReq.query # <<>>) =>
      \A k \in 1..Len(recalled) :
        \/ Contains(lastReq.query, recalled[k].content)
        \/ Contains(lastReq.query, recalled[k].summary)
        \/ Contains(lastReq.query, recalled[k].topics)

\* C20 (as claimed): a recall of the command line that was given a type or
\* a scope filter returns no memory outside it, whether the query embedding
\* was available (hybrid search) or not (keyword search).
C20_HybridKeepsFilters ==
    via \in {"recallCmd:hybrid", "recallCmd:keyword"} =>
      \A k \in 1..Len(recalled) :
        /\ lastReq.types # {} => recalled[k].type \in lastReq.types
        /\ lastReq.scope # {} => recalled[k].scope \in lastReq.scope

(* --------------------- claims: remember and status -------------------- *)

\* A step in which an operation of a client of the store returned.
ClientStep == calls' = calls + 1

\* The text holds the query as a substring, character by character.
ExactlyIn(q, text) ==
    \E k \in 0..(Len(text) - Len(q)) : \A j \in 1..Len(q) : q[j] = text[k + j]

\* C21: a `memorypilot remember` that succeeds adds exactly one row to the
\* memories table, with the given content and type, confidence 1.0,
\* importance 1.0, scope personal, source manual and access count 0, and
\* leaves the other rows alone; the next operation, if it is a recall
\* answered by Store.Recall without filter whose query is a substring of
\* that content, and no memory was created in between, returns that memory
\* with confidence 1.0 and source manual.
C21_RememberThenRecall ==
    [][ClientStep =>
         /\ (via' = "rememberCmd" /\ reply' = "ok") =>
              /\ Len(memories') = Len(memories) + 1
              /\ \A i \in 1..Len(memories) : memories'[i] = memories[i]
              /\ LET m == memories'[Len(memories')]
                 IN /\ m.content = asked'.content
                    /\ m.type = asked'.type
                    /\ m.confidence = 10
                    /\ m.importance = 10000
                    /\ m.scope = "personal"
                    /\ m.source = "manual"
                    /\ m.accessCount = 0
         /\ ( /\ via = "rememberCmd"
              /\ reply = "ok"
              /\ asked.id = Len(memories)
              /\ via' \in KeywordPaths
              /\ lastReq'.scope = {}
              /\ lastReq'.types = {}
              /\ ExactlyIn(lastReq'.query, asked.content) ) =>
              \E k \in 1..Len(recalled') :
                /\ recalled'[k].id = asked.id
                /\ recalled'[k].content = asked.content
                /\ recalled'[k].confidence = 10
                /\ recalled'[k].source = "manual"]_vars

\* C21 witness: a recall with a query returned the memory that the
\* `memorypilot remember` before it had stored.
C21_Witness ==
    /\ via \in KeywordPaths
    /\ lastReq.query # <<>>
    /\ asked.source = "manual"
    /\ \E k \in 1..Len(recalled) :
         /\ recalled[k].id = asked.id
         /\ recalled[k].content = asked.content
         /\ recalled[k].source = "manual"
         /\ recalled[k].accessCount = 0

\* C22 (as claimed): a remember that succeeds, through the command line or
\* through the MCP tool, adds to the memories table a row with the content
\* and the type it was given.
C22_RememberOnBothSurfaces ==
    [][(ClientStep /\ via' \in {"rememberCmd", "handleRemember"} /\ reply' = "ok") =>
         /\ Len(memories') = Len(memories) + 1
         /\ memories'[Len(memories')].content = asked'.content
         /\ memories'[Len(memories')].type = asked'.type]_vars

C24_FindsLastUpserted ==
    /\ \A r1, r2 \in projects : r1.path = r2.path => r1 = r2
    /\ (via = "GetProjectByPath" /\ reply = "ok") => found.rows = upserted[found.path]

(* --------------------------- claims: shutdown ------------------------- *)

\* C25 (as claimed): when Agent.Stop has closed the store, every worker has
\* returned: the dispatcher, the decay scheduler and every producer.
C25_ClosedAfterAllWorkers ==
    storePc = "closed" =>
      /\ pc = "done"
      /\ ~decayUp
      /\ exited = Range(WatcherOrder)

(* ---------------------- claims: failures of workers ------------------- *)

C30_AppendOnly ==
    [][/\ Len(events') >= Len(events)
       /\ \A i \in 1..Len(events) : events'[i] = events[i]
       /\ processed \subseteq processed'
       /\ processed' \subseteq Range(events')
       /\ Len(memories') >= Len(memories)
       /\ \A i \in 1..Len(memories) :
            \A f \in {"id", "type", "scope", "source", "content", "summary", "confidence"} :
              memories'[i][f] = memories[i][f]]_vars

\* C30 witness: two events are stored and one of them is marked; a decay
\* run has lowered the importance of the stored memory.
C30_Witness ==
    /\ Len(events) = 2
    /\ Cardinality(processed) = 1
    /\ Len(memories) = 1
    /\ memories[1].importance < ImportanceInit
    /\ via = "decay"

(* ---------------------------- claims: restart ------------------------- *)

\* C26 (as claimed): after the daemon was killed and started again, the
\* events that GetUnprocessedEvents returns, those stored and not marked,
\* are extracted again and end up marked as processed.
C26_OrphansGetProcessed ==
    (restarted /\ orphans # {}) ~> (orphans \subseteq processed)

(* -------------------------- claims: concurrency ----------------------- *)

\* The table after the database has run one statement on it.
AfterStatement(tbl, st) ==
    IF st.kind = "boost" THEN [tbl EXCEPT ![st.id] = RecordAccess(@)]
    ELSE IF st.kind = "decay"
         THEN [i \in 1..Len(tbl) |-> IF DecayEligible(tbl[i]) THEN Decay(tbl[i]) ELSE tbl[i]]
         ELSE tbl

\* The table after the statements of a log, run one at a time in its order.
RECURSIVE Replay(_, _)
Replay(log, tbl) ==
    IF log = <<>> THEN tbl ELSE Replay(Tail(log), AfterStatement(tbl, Head(log)))

\* ORDER BY importance DESC, last_accessed_at DESC LIMIT n on a table.
RECURSIVE RankedIn(_, _, _)
RankedIn(tbl, ids, n) ==
    IF n = 0 \/ ids = {} THEN {<<>>}
    ELSE LET first == {i \in ids : \A j \in ids : ~SortsBefore(tbl[j], tbl[i])}
         IN UNION {{<<i>> \o rest : rest \in RankedIn(tbl, ids \ {i}, n - 1)} : i \in first}

\* The tables a whole operation may leave when nothing runs during it: a
\* decay run, or a recall whose UPDATEs succeed or fail.
AloneOutcomes(tbl, op) ==
    IF op.kind = "decay" THEN {AfterStatement(tbl, op)}
    ELSE {[i \in 1..Len(tbl) |-> IF i \in boosted THEN RecordAccess(tbl[i]) ELSE tbl[i]] :
            boosted \in UNION {SUBSET Range(order) :
                                 order \in RankedIn(tbl, 1..Len(tbl), EffectiveLimit(op.limit))}}

\* The tables that the operations `ops` (places of the log) may leave when
\* they run one after the other, in any order.
RECURSIVE SerialOutcomes(_, _)
SerialOutcomes(tbl, ops) ==
    IF ops = {} THEN {tbl}
    ELSE UNION {UNION {SerialOutcomes(t, ops \ {k}) : t \in AloneOutcomes(tbl, applied[k])} :
                  k \in ops}

\* Importance and access count of the rows of a table.
Standing(tbl) == [i \in 1..Len(tbl) |-> <<tbl[i].importance, tbl[i].accessCount>>]

C32_NoDecayAfterShutdown ==
    [][/\ ctxDone => nextDecay' = nextDecay
       /\ nextDecay' # nextDecay =>
             \/ memories' = memories
             \/ \A i \in 1..Len(memories) :
                  DecayEligible(memories[i]) => memories'[i] = Decay(memories[i])]_vars

(* ------------------------ claims: every event gets through ------------ *)

\* The batches handed to extraction, one after the other.
RECURSIVE Joined(_)
Joined(log) ==
    IF log = <<>> THEN <<>> ELSE Head(log) \o Joined(Tail(log))

\* The number of places of a sequence that hold e.
Occurrences(e, seq) == Cardinality({i \in 1..Len(seq) : seq[i] = e})

C34_RecallTouchesReturnedOnly ==
    [][(RecallStep /\ via' \in KeywordPaths) =>
         /\ Len(memories') = Len(memories)
         /\ \A i \in 1..Len(memories) :
              IF i \in Returned
              THEN [memories'[i] EXCEPT !.importance = memories[i].importance,
                                        !.lastAccessed = memories[i].lastAccessed,
                                        !.accessCount = memories[i].accessCount]
                     = memories[i]
              ELSE memories'[i] = memories[i]]_vars

\* C34 witness: a recall with a type filter and a limit returned rows and
\* recorded an access to one; a row of another type and a row of the type
\* that came beyond the limit are in the table, and no row that was not
\* returned has an access recorded.
C34_Witness ==
    /\ via \in KeywordPaths
    /\ lastReq.types # {}
    /\ \E k \in 1..Len(recalled) : memories[recalled[k].id].accessCount = 1
    /\ \E i \in 1..Len(memories) : i \notin Found(lastReq)
    /\ \E i \in Found(lastReq) : \A k \in 1..Len(recalled) : recalled[k].id # i
    /\ \A i \in 1..Len(memories) :
         (\A k \in 1..Len(recalled) : recalled[k].id # i) =>
            memories[i] = TableRow(i, 0) \/ memories[i] = TableRow(i, 1) \/ memories[i] = TableRow(i, 2)

(* ------------------------ claims: the status snapshot ----------------- *)

\* The sum of the counts by type of a Stats.
RECURSIVE TypeSum(_, _)
TypeSum(byType, types) ==
    IF types = {} THEN 0
    ELSE LET t == CHOOSE x \in types : TRUE
         IN byType[t] + TypeSum(byType, types \ {t})

\* C35: whatever is created while status() runs, the total it reports is
\* the sum of the counts by type it reports.
C35_StatusIsSnapshot ==
    (stats.pc = "idle" /\ via = "handleStatus" /\ reply = "ok") =>
        stats.TotalMemories = TypeSum(stats.ByType, StatTypes)

(* ------------------------ claims: the assistant-facing server --------- *)

\* What the claim says a parsed request is answered with, the outcome of the
\* store call given: the code, 0 for a result.
ClaimedCode(line, storeFailed) ==
    IF line.json \in {"garbage", "scalar"} THEN -32700
    ELSE IF line.method \notin {"initialize", "tools/list", "tools/call"} THEN -32601
    ELSE IF line.method # "tools/call" THEN 0
    ELSE IF line.tool \notin {"memorypilot_recall", "memorypilot_remember",
                              "memorypilot_status"} THEN -32602
    ELSE IF storeFailed THEN -32000 ELSE 0

About(path) == {k \in 1..Len(fileLog) : fileLog[k].path = path}
Emitted(path) == {k \in About(path) : fileLog[k].what # "notified"}

\* The latest notification for the path before entry k of the log.
NotifiedBefore(path, k) ==
    {n \in About(path) : n < k /\ fileLog[n].what = "notified"}

\* C37: a path is handed to emitEvent only when the debounce interval has
\* passed since its latest notification; between two such calls for a path
\* there is a notification for it, so the notifications of one interval make
\* one event; and a path is out of the pending set once it was handed over,
\* whether the event was sent, dropped or not built, until it is notified
\* again.
C37_OneEventPerQuietPeriod ==
    \A path \in WatchedPaths :
      /\ \A k \in Emitted(path) :
           /\ NotifiedBefore(path, k) # {}
           /\ \A n \in NotifiedBefore(path, k) :
                (\A e \in Emitted(path) : ~(n < e /\ e < k)) =>
                   fileLog[k].at - fileLog[n].at >= 2
      /\ \A k, l \in Emitted(path) :
           k < l => \E n \in NotifiedBefore(path, l) : k < n
      /\ (About(path) # {} /\ \A k \in About(path) : \E e \in Emitted(path) : k <= e)
           => pending[path] = NotPending
      /\ pending[path] # NotPending =>
           \E n \in About(path) :
             /\ fileLog[n] = [path |-> path, at |-> pending[path], what |-> "notified"]
             /\ \A k \in About(path) : k > n => fileLog[k] = fileLog[n]

\* C37 witness: a path was notified twice within the interval and handed
\* over once after it, the event being sent; an event for a path was dropped
\* by the full queue and the path is not pending.
C37_Witness ==
    /\ \E path \in WatchedPaths :
         \E n, m, e \in About(path) :
           /\ n < m /\ m < e
           /\ fileLog[n].what = "notified"
           /\ fileLog[m].what = "notified"
           /\ fileLog[m].at - fileLog[n].at = 1
           /\ fileLog[e].what = "sent"
           /\ \A k \in Emitted(path) : ~(n < k /\ k < e)
    /\ \E k \in 1..Len(fileLog) :
         /\ fileLog[k].what = "dropped"
         /\ pending[fileLog[k].path] = NotPending

(* ------------------------ claims: the history tailer ------------------ *)

\* C38 (as claimed): the tailer examines every line appended after Start
\* exactly once: no line that was in the file before Start is examined, no
\* line is examined twice, and, once a check has seen the file at its
\* present size, no line of the file that lies before the tailer's position
\* was passed over - also when the file grows between the size check and
\* the read, and after the file has shrunk.
C38_EveryLineOnce ==
    /\ \A k \in 1..Len(examined) :
         /\ examined[k] > terminalWatcher.startedAt
         /\ Occurrences(examined[k], examined) = 1
    /\ (terminalWatcher.pc = "idle" /\ terminalWatcher.currentSize = Len(historyFile)) =>
         \A i \in 1..Len(historyFile) :
           (i <= terminalWatcher.lastPositions /\ historyFile[i] > terminalWatcher.startedAt)
              => historyFile[i] \in Range(examined)

(* ------------------------ claims: the repository scanner -------------- *)

\* The scans of a repository before scan k in which git log printed a hash.
ObservedBefore(repo, k) ==
    {j \in 1..(k - 1) : gitLog[j].repo = repo /\ gitLog[j].what # "failed"}

\* The latest of a non-empty set of scans.
Latest(scans) == CHOOSE j \in scans : \A i \in scans : i <= j

\* C39: the first scan that observes a repository emits nothing; a later
\* scan emits one event (sent, or dropped by a full queue) if the head is
\* not the commit of the latest scan that observed the repository, whatever
\* became of that scan's event, and nothing if it is; the recorded commit is
\* the head of the latest scan that observed the repository.
C39_OneEventPerNewHead ==
    /\ \A k \in 1..Len(gitLog) :
         LET e == gitLog[k]
             before == ObservedBefore(e.repo, k)
         IN e.what # "failed" =>
              IF before = {} THEN e.what = "first"
              ELSE IF gitLog[Latest(before)].hash = e.hash THEN e.what = "same"
              ELSE e.what \in {"sent", "dropped"}
    /\ Cardinality({k \in 1..Len(gitLog) : gitLog[k].what \in {"sent", "dropped"}})
         = nextId - 1
    /\ \A repo \in Repos :
         LET seen == ObservedBefore(repo, Len(gitLog) + 1)
         IN lastCommit[repo] = IF seen = {} THEN NoCommit ELSE gitLog[Latest(seen)].hash

\* C39 witness: a repository was observed for the first time without an
\* event; later an event for its commit was dropped by the full queue, and
\* the scan after that one found the same head and emitted nothing.
C39_Witness ==
    \E k \in 2..Len(gitLog) :
      /\ gitLog[k].what = "same"
      /\ gitLog[k - 1].what = "dropped"
      /\ gitLog[k - 1].repo = gitLog[k].repo
      /\ gitLog[1].what = "first"
      /\ gitLog[1].repo = gitLog[k].repo

====
